---- MODULE Spec2Model ----
(***************************************************************************)
(* Model of backend/model_manager.py: the process-wide ModelManager        *)
(* singleton, its device resolution, and the lazy load cascades of the     *)
(* three model handles (face_analysis, face_swapper, gfpgan_restorer).     *)
(*                                                                         *)
(* The three get_* methods are coroutines without an await in their body,  *)
(* so on the event loop each call runs to completion before another        *)
(* coroutine is scheduled: a call is one atomic action.  What the external *)
(* libraries do (a constructor or a prepare raising, a file existing) is   *)
(* an input of the call, drawn from the outcome sets below.                *)
(***************************************************************************)
EXTENDS Integers, Sequences, FiniteSets, TLC

\* ---------------------------------------------------------------- bounds
NCallers == 2
MaxCleanups == 1
MaxFaces == 2
BlendScale == 2
ImgW == 2
ImgH == 2

Callers == 1..NCallers
Roles == {"detector", "swapper", "restorer"}

\* ------------------------------------------------------- handles, results
\* A handle is an object created by a library constructor.  id names the
\* object (0 is Python's None), stage the cascade stage that created it,
\* ready whether every step of that stage completed (for the detector:
\* FaceAnalysis(...) and .prepare(...)), bg whether a background upsampler
\* was attached (restorer only).
None == [id |-> 0, stage |-> 0, ready |-> FALSE, bg |-> FALSE]

Handle(i, s, r, b) == [id |-> i, stage |-> s, ready |-> r, bg |-> b]

CPU == "CPUExecutionProvider"

CUDA == "CUDAExecutionProvider"

COREML == "CoreMLExecutionProvider"

\* One attempted stage of a cascade, as the library saw it: the providers
\* (for GFPGANer, the device), context id and module set passed, where the
\* model comes from, the outcome of an optional auxiliary load made first
\* ("n/a" when the stage has none), whether the stage completed, and the
\* class of the exception that ended it when it did not.
Attempt(s, p, c, m, src, ok) ==
    [stage |-> s, providers |-> p, ctx_id |-> c, modules |-> m, source |-> src,
     aux |-> "n/a", ok |-> ok, error |-> IF ok THEN "none" ELSE "Exception"]

\* ------------------------------------------------------ device resolution
\* _get_best_device: torch.cuda.is_available(), hasattr(torch.backends,'mps'),
\* torch.backends.mps.is_available()
_get_best_device_mps_first(cuda, hasMps, mpsAvail) ==
    IF hasMps /\ mpsAvail THEN "mps"
    ELSE IF cuda THEN "cuda"
    ELSE "cpu"

_get_best_device(cuda, hasMps, mpsAvail) ==
    IF cuda THEN "cuda"
    ELSE IF hasMps /\ mpsAvail THEN "mps"
    ELSE "cpu"

_get_execution_providers(dev) ==
    IF dev = "cuda" THEN <<CUDA, CPU>>
    ELSE IF dev = "mps" THEN <<CPU>>
    ELSE <<CPU>>

_get_ctx_id(dev) == IF dev = "cuda" THEN 0 ELSE -1

\* ------------------------------------------------- outcomes of library calls
\* FaceAnalysis(...) followed by .prepare(...): either step may raise, an
\* AssertionError or another Exception.
DetStage1 == {"ok", "ctor_assert", "ctor_exc", "prep_assert", "prep_exc"}

\* In the retry any exception is caught by "except Exception as e2".
DetStage2 == {"ok", "ctor_exc", "prep_exc"}

\* insightface.model_zoo.get_model(...), RealESRGANer(...), GFPGANer(...)
LoadOutcome == {"ok", "raise"}

IsAssertion(o) == o \in {"ctor_assert", "prep_assert"}

CtorRaised(o) == o \in {"ctor_assert", "ctor_exc"}

\* The result of one get call: the value the attribute holds afterwards,
\* what the caller gets ("handle": return of a non-None object, "None":
\* return of None, "raise": an exception), the stages attempted in order,
\* whether the load ran at all, how many objects were constructed, and what
\* the load's test of the model's local file answered ("unread": no test).
Result(cache, kind, trace, ran, made) ==
    [cache |-> cache, kind |-> kind, trace |-> trace, ran |-> ran, made |-> made,
     localFile |-> "unread"]

\* model_path.exists() as the load read it.
LocalFile(exists) == IF exists THEN "present" ELSE "absent"

Cached(cur) ==
    Result(cur, IF cur = None THEN "None" ELSE "handle", <<>>, FALSE, 0)

\* ----------------------------------------------------------- detector load
\* Body of "if self.face_analysis is None:" in get_face_analysis.
\* self.face_analysis is assigned by the constructor call, before prepare.
LoadFaceAnalysis_full_modules(dev, s1, s2, id) ==
    LET providers == _get_execution_providers(dev)
        ctx_id    == _get_ctx_id(dev)
        a1        == [Attempt(1, providers, ctx_id, "all", "buffalo_l", s1 = "ok") EXCEPT
                        !.error = IF IsAssertion(s1) THEN "AssertionError" ELSE @]
        made1     == IF CtorRaised(s1) THEN 0 ELSE 1
        after1    == IF CtorRaised(s1) THEN None ELSE Handle(id, 1, s1 = "ok", FALSE)
        modules2  == "all"
        a2        == Attempt(2, <<CPU>>, -1, modules2, "buffalo_l", s2 = "ok")
        made2     == IF CtorRaised(s2) THEN 0 ELSE 1
        after2    == IF CtorRaised(s2) THEN after1
                     ELSE Handle(id + made1, 2, s2 = "ok", FALSE)
    IN  IF s1 = "ok"
        THEN Result(after1, "handle", <<a1>>, TRUE, made1)
        ELSE IF s2 = "ok"
        THEN Result(after2, "handle", <<a1, a2>>, TRUE, made1 + made2)
        ELSE Result(after2, "raise", <<a1, a2>>, TRUE, made1 + made2)

LoadFaceAnalysis(dev, s1, s2, id) ==
    LET providers == _get_execution_providers(dev)
        ctx_id    == _get_ctx_id(dev)
        a1        == [Attempt(1, providers, ctx_id, "all", "buffalo_l", s1 = "ok") EXCEPT
                        !.error = IF IsAssertion(s1) THEN "AssertionError" ELSE @]
        made1     == IF CtorRaised(s1) THEN 0 ELSE 1
        after1    == IF CtorRaised(s1) THEN None ELSE Handle(id, 1, s1 = "ok", FALSE)
        modules2  == IF IsAssertion(s1) THEN "reduced" ELSE "all"
        a2        == Attempt(2, <<CPU>>, -1, modules2, "buffalo_l", s2 = "ok")
        made2     == IF CtorRaised(s2) THEN 0 ELSE 1
        after2    == IF CtorRaised(s2) THEN after1
                     ELSE Handle(id + made1, 2, s2 = "ok", FALSE)
    IN  IF s1 = "ok"
        THEN Result(after1, "handle", <<a1>>, TRUE, made1)
        ELSE IF s2 = "ok"
        THEN Result(after2, "handle", <<a1, a2>>, TRUE, made1 + made2)
        ELSE Result(after2, "raise", <<a1, a2>>, TRUE, made1 + made2)

\* ------------------------------------------------------------ swapper load
\* Body of "if self.face_swapper is None:" in get_face_swapper.  exists is
\* model_path.exists() for models/inswapper_128.onnx.
LoadFaceSwapper_skip_cpu(dev, s1, s2, exists, s3, id) ==
    LET providers == _get_execution_providers(dev)
        a1 == Attempt(1, providers, -1, "n/a", "zoo", s1 = "ok")
        a3 == Attempt(3, <<CPU>>, -1, "n/a", "local", s3 = "ok")
    IN  IF s1 = "ok" THEN Result(Handle(id, 1, TRUE, FALSE), "handle", <<a1>>, TRUE, 1)
        ELSE IF ~exists THEN Result(None, "raise", <<a1>>, TRUE, 0)
        ELSE IF s3 = "ok" THEN Result(Handle(id, 3, TRUE, FALSE), "handle", <<a1, a3>>, TRUE, 1)
        ELSE Result(None, "raise", <<a1, a3>>, TRUE, 0)

LoadFaceSwapper_none_on_missing(dev, s1, s2, exists, s3, id) ==
    LET providers == _get_execution_providers(dev)
        a1 == Attempt(1, providers, -1, "n/a", "zoo", s1 = "ok")
        a2 == Attempt(2, <<CPU>>, -1, "n/a", "zoo", s2 = "ok")
        a3 == Attempt(3, <<CPU>>, -1, "n/a", "local", s3 = "ok")
    IN  IF s1 = "ok" THEN Result(Handle(id, 1, TRUE, FALSE), "handle", <<a1>>, TRUE, 1)
        ELSE IF s2 = "ok" THEN Result(Handle(id, 2, TRUE, FALSE), "handle", <<a1, a2>>, TRUE, 1)
        ELSE IF ~exists THEN Result(None, "None", <<a1, a2>>, TRUE, 0)
        ELSE IF s3 = "ok" THEN Result(Handle(id, 3, TRUE, FALSE), "handle", <<a1, a2, a3>>, TRUE, 1)
        ELSE Result(None, "raise", <<a1, a2, a3>>, TRUE, 0)

LoadFaceSwapper_no_local(dev, s1, s2, exists, s3, id) ==
    LET providers == _get_execution_providers(dev)
        a1 == Attempt(1, providers, -1, "n/a", "zoo", s1 = "ok")
        a2 == Attempt(2, <<CPU>>, -1, "n/a", "zoo", s2 = "ok")
        r3 == Result(None, "raise", <<a1, a2>>, TRUE, 0)
    IN  IF s1 = "ok" THEN Result(Handle(id, 1, TRUE, FALSE), "handle", <<a1>>, TRUE, 1)
        ELSE IF s2 = "ok" THEN Result(Handle(id, 2, TRUE, FALSE), "handle", <<a1, a2>>, TRUE, 1)
        ELSE [r3 EXCEPT !.localFile = LocalFile(exists)]

LoadFaceSwapper(dev, s1, s2, exists, s3, id) ==
    LET providers == _get_execution_providers(dev)
        a1 == Attempt(1, providers, -1, "n/a", "zoo", s1 = "ok")
        a2 == Attempt(2, <<CPU>>, -1, "n/a", "zoo", s2 = "ok")
        a3 == Attempt(3, <<CPU>>, -1, "n/a", "local", s3 = "ok")
        r3 == IF ~exists THEN Result(None, "raise", <<a1, a2>>, TRUE, 0)
              ELSE IF s3 = "ok"
              THEN Result(Handle(id, 3, TRUE, FALSE), "handle", <<a1, a2, a3>>, TRUE, 1)
              ELSE Result(None, "raise", <<a1, a2, a3>>, TRUE, 0)
    IN  IF s1 = "ok" THEN Result(Handle(id, 1, TRUE, FALSE), "handle", <<a1>>, TRUE, 1)
        ELSE IF s2 = "ok" THEN Result(Handle(id, 2, TRUE, FALSE), "handle", <<a1, a2>>, TRUE, 1)
        ELSE [r3 EXCEPT !.localFile = LocalFile(exists)]

\* ----------------------------------------------------------- restorer load
\* Body of "if self.gfpgan_restorer is None:" in get_gfpgan_restorer.
\* local is GFPGANv1.4.pth existing under models/ (else the GitHub URL is
\* used), up the outcome of RealESRGANer(...), attempted on cuda and mps
\* only and caught by its own try, g the outcome of GFPGANer(...).
LoadGfpgan_upsampler_fatal(dev, local, up, g, id) ==
    LET src == IF local THEN "local" ELSE "url"
        bg  == dev \in {"cuda", "mps"} /\ up = "ok"
        bad == dev \in {"cuda", "mps"} /\ up = "raise"
        a1  == [Attempt(1, <<dev>>, -1, "n/a", src, g = "ok") EXCEPT
                  !.aux = IF dev \in {"cuda", "mps"} THEN up ELSE "skipped"]
    IN  IF g = "ok" /\ ~bad
        THEN Result(Handle(id, 1, TRUE, bg), "handle", <<a1>>, TRUE, 1)
        ELSE Result(None, "None", <<a1>>, TRUE, 0)

LoadGfpgan(dev, local, up, g, id) ==
    LET src == IF local THEN "local" ELSE "url"
        bg  == dev \in {"cuda", "mps"} /\ up = "ok"
        a1  == [Attempt(1, <<dev>>, -1, "n/a", src, g = "ok") EXCEPT
                  !.aux = IF dev \in {"cuda", "mps"} THEN up ELSE "skipped"]
        r1  == IF g = "ok"
               THEN Result(Handle(id, 1, TRUE, bg), "handle", <<a1>>, TRUE, 1)
               ELSE Result(None, "None", <<a1>>, TRUE, 0)
    IN  [r1 EXCEPT !.localFile = LocalFile(local)]

\* ------------------------------------------------------------------ state
VARIABLES
    _instance,        \* ModelManager._instance: 0 is None, 1 the one object
    _initialized,     \* the object's _initialized attribute
    device,           \* self.device ("unset" before __init__ ran)
    use_mps,          \* self.use_mps
    face_analysis,    \* self.face_analysis
    face_swapper,     \* self.face_swapper
    gfpgan_restorer,  \* self.gfpgan_restorer
    pc,               \* per caller: where its get(role) coroutine is
    last,             \* the last completed get: what it returned and did
    nextId,           \* per role: name of the next object a constructor creates
    allocs,           \* history: objects allocated by __new__
    resolves,         \* history: runs of _get_best_device
    firstDevice,      \* history: device resolved by the first __init__
    resolvedFrom,     \* history: what torch reported when the device was resolved
    reconstructed,    \* history: ModelManager() was called again after the first
    cleanups,         \* history: cleanup() calls
    idAtCleanup,      \* history: nextId at the last cleanup
    loads,            \* history: per role, load runs since the last cleanup
    returned,         \* history: per role, outcomes of the gets since then
    fan,              \* history: per role, what callers got that were pending
                      \*          while another caller's load of the role ran
    app,              \* FaceSwapper.app
    swapper,          \* FaceSwapper.swapper
    swap_initialized, \* FaceSwapper.is_initialized
    swapLast,         \* the last FaceSwapper call: its inputs and what it did
    gfpgan,           \* FaceRestoration.gfpgan
    restore_initialized, \* FaceRestoration.is_initialized
    restoreLast       \* the last FaceRestoration call: its inputs and what it did

vars == <<_instance, _initialized, device, use_mps, face_analysis, face_swapper,
          gfpgan_restorer, pc, last, nextId, allocs, resolves,
          firstDevice, resolvedFrom, reconstructed, cleanups, idAtCleanup, loads,
          returned, fan, app, swapper, swap_initialized, swapLast, gfpgan,
          restore_initialized, restoreLast>>

swapVars == <<app, swapper, swap_initialized, swapLast>>

restoreVars == <<gfpgan, restore_initialized, restoreLast>>

\* Nothing has been called on an engine yet.
NoCall == [op |-> "none"]

managerVars == <<_instance, _initialized, device, use_mps, allocs, resolves,
                 firstDevice, resolvedFrom, reconstructed>>

\* What a caller observes of a get: "handle" with the object's id, "None"
\* or "raise" (id 0); "none" when there is nothing to observe yet.
Outcome(kind, id) == [kind |-> kind, id |-> id]

NoOutcome == Outcome("none", 0)

OutcomeOf(res) ==
    Outcome(res.kind, IF res.kind = "handle" THEN res.cache.id ELSE 0)

Idle == [at |-> "idle", role |-> "none", seen |-> NoOutcome]

Done == [at |-> "done", role |-> "none", seen |-> NoOutcome]

\* A pending get(role); seen is the outcome of the first load of the role
\* by another caller that ran while this one was pending.
Pending(role, seen) == [at |-> "pending", role |-> role, seen |-> seen]

\* torch.cuda.is_available(), hasattr(torch.backends, 'mps') and
\* torch.backends.mps.is_available() as the host answers them.
Host(cuda, hasMps, mpsAvail) == [cuda |-> cuda, hasMps |-> hasMps, mpsAvail |-> mpsAvail]

NoGet == [role |-> "none", kind |-> "none", h |-> None, ran |-> FALSE,
          trace |-> <<>>, localFile |-> "unread"]

Init ==
    /\ _instance = 0
    /\ _initialized = FALSE
    /\ device = "unset"
    /\ use_mps = FALSE
    /\ face_analysis = None
    /\ face_swapper = None
    /\ gfpgan_restorer = None
    /\ pc = [c \in Callers |-> Idle]
    /\ last = NoGet
    /\ nextId = [r \in Roles |-> 1]
    /\ allocs = 0
    /\ resolves = 0
    /\ firstDevice = "unset"
    /\ resolvedFrom = Host(FALSE, FALSE, FALSE)
    /\ reconstructed = FALSE
    /\ cleanups = 0
    /\ idAtCleanup = [r \in Roles |-> 1]
    /\ loads = [r \in Roles |-> 0]
    /\ returned = [r \in Roles |-> {}]
    /\ fan = [r \in Roles |-> {}]
    /\ app = None
    /\ swapper = None
    /\ swap_initialized = FALSE
    /\ swapLast = NoCall
    /\ gfpgan = None
    /\ restore_initialized = FALSE
    /\ restoreLast = NoCall

\* ----------------------------------------------------------- construction
\* __new__: allocate the object once, with _initialized = False.
__new__ ==
    /\ _instance' = 1
    /\ allocs' = IF _instance = 0 THEN allocs + 1 ELSE allocs

\* The value of _initialized that __init__ finds after __new__.
InitializedAfterNew == IF _instance = 0 THEN FALSE ELSE _initialized

__init___unguarded(initialized, cuda, hasMps, mpsAvail) ==
    /\ face_analysis' = None
    /\ face_swapper' = None
    /\ gfpgan_restorer' = None
    /\ device' = _get_best_device(cuda, hasMps, mpsAvail)
    /\ use_mps' = (device' = "mps")
    /\ _initialized' = TRUE
    /\ resolves' = resolves + 1
    /\ firstDevice' = IF resolves = 0 THEN device' ELSE firstDevice
    /\ resolvedFrom' = Host(cuda, hasMps, mpsAvail)

__init__(initialized, cuda, hasMps, mpsAvail) ==
    IF initialized
    THEN /\ _initialized' = initialized
         /\ UNCHANGED <<face_analysis, face_swapper, gfpgan_restorer, device,
                        use_mps, resolves, firstDevice, resolvedFrom>>
    ELSE /\ face_analysis' = None
         /\ face_swapper' = None
         /\ gfpgan_restorer' = None
         /\ device' = _get_best_device(cuda, hasMps, mpsAvail)
         /\ use_mps' = (device' = "mps")
         /\ _initialized' = TRUE
         /\ resolves' = resolves + 1
         /\ firstDevice' = IF resolves = 0 THEN device' ELSE firstDevice
         /\ resolvedFrom' = Host(cuda, hasMps, mpsAvail)

\* ModelManager(): __new__ then __init__, with the host's capabilities at
\* the time of the call as inputs.  The module constructs its instance once
\* at import; any later ModelManager() is a further call of this action.
\* An __init__ that returns at its guard never asks torch, so a call that
\* finds the instance initialized draws no answers.
Hosts == {Host(cuda, hasMps, mpsAvail) :
            cuda \in BOOLEAN, hasMps \in BOOLEAN, mpsAvail \in BOOLEAN}

HostsAsked == IF InitializedAfterNew THEN {Host(FALSE, FALSE, FALSE)} ELSE Hosts

Construct(cuda, hasMps, mpsAvail) ==
    /\ __new__
    /\ __init__(InitializedAfterNew, cuda, hasMps, mpsAvail)
    /\ reconstructed' = (_instance # 0)
    /\ UNCHANGED <<pc, last, nextId, cleanups, idAtCleanup, loads,
                   returned, fan>>

\* ------------------------------------------------------------------ calls
\* A caller is one coroutine of get(role): it is created by the call
\* (Invoke) and its body runs, once and without yielding, when the event
\* loop schedules it.
Invoke(c, role) ==
    /\ _initialized
    /\ pc[c] = Idle
    /\ pc' = [pc EXCEPT ![c] = Pending(role, NoOutcome)]
    /\ UNCHANGED <<managerVars, face_analysis, face_swapper, gfpgan_restorer,
                   last, nextId, cleanups, idAtCleanup, loads,
                   returned, fan>>

\* Bookkeeping shared by the three get methods: res is the Result of the
\* call of caller c.
Complete(c, role, res) ==
    /\ pc' = [d \in Callers |->
                IF d = c THEN Done
                ELSE IF /\ res.ran
                        /\ pc[d].at = "pending"
                        /\ pc[d].role = role
                        /\ pc[d].seen = NoOutcome
                THEN Pending(role, OutcomeOf(res))
                ELSE pc[d]]
    /\ last' = [role |-> role, kind |-> res.kind,
                h |-> IF res.kind = "handle" THEN res.cache ELSE None,
                ran |-> res.ran, trace |-> res.trace, localFile |-> res.localFile]
    /\ nextId' = [nextId EXCEPT ![role] = @ + res.made]
    /\ loads' = [loads EXCEPT ![role] = @ + (IF res.ran THEN 1 ELSE 0)]
    /\ returned' = [returned EXCEPT ![role] = @ \cup {OutcomeOf(res)}]
    /\ fan' = [fan EXCEPT ![role] =
                 IF pc[c].seen = NoOutcome THEN @
                 ELSE @ \cup {[expected |-> pc[c].seen, got |-> OutcomeOf(res),
                               ran |-> res.ran]}]

get_face_analysis(c, s1, s2) ==
    /\ _initialized
    /\ pc[c].at = "pending"
    /\ pc[c].role = "detector"
    /\ LET res == IF face_analysis = None
                  THEN LoadFaceAnalysis(device, s1, s2, nextId["detector"])
                  ELSE Cached(face_analysis)
       IN  /\ face_analysis' = res.cache
           /\ Complete(c, "detector", res)
    /\ UNCHANGED <<managerVars, face_swapper, gfpgan_restorer,
                   cleanups, idAtCleanup>>

get_face_swapper(c, s1, s2, exists, s3) ==
    /\ _initialized
    /\ pc[c].at = "pending"
    /\ pc[c].role = "swapper"
    /\ LET res == IF face_swapper = None
                  THEN LoadFaceSwapper(device, s1, s2, exists, s3, nextId["swapper"])
                  ELSE Cached(face_swapper)
       IN  /\ face_swapper' = res.cache
           /\ Complete(c, "swapper", res)
    /\ UNCHANGED <<managerVars, face_analysis, gfpgan_restorer,
                   cleanups, idAtCleanup>>

get_gfpgan_restorer(c, local, up, g) ==
    /\ _initialized
    /\ pc[c].at = "pending"
    /\ pc[c].role = "restorer"
    /\ LET res == IF gfpgan_restorer = None
                  THEN LoadGfpgan(device, local, up, g, nextId["restorer"])
                  ELSE Cached(gfpgan_restorer)
       IN  /\ gfpgan_restorer' = res.cache
           /\ Complete(c, "restorer", res)
    /\ UNCHANGED <<managerVars, face_analysis, face_swapper,
                   cleanups, idAtCleanup>>

\* ---------------------------------------------------------------- cleanup
\* History kept with a cleanup: the gets after it are counted anew, and a
\* pending get has seen no load of this period.
Forget ==
    /\ cleanups' = cleanups + 1
    /\ idAtCleanup' = nextId
    /\ loads' = [r \in Roles |-> 0]
    /\ returned' = [r \in Roles |-> {}]
    /\ fan' = [r \in Roles |-> {}]
    /\ pc' = [c \in Callers |->
                IF pc[c].at = "pending" THEN Pending(pc[c].role, NoOutcome)
                ELSE pc[c]]

\* cleanup() drops the three handles.  Its torch.cuda.empty_cache() /
\* torch.mps.empty_cache() call frees memory held by torch's allocator,
\* which nothing in the repository reads back: it changes no variable here.
cleanup_keeps_swapper ==
    /\ _initialized
    /\ cleanups < MaxCleanups
    /\ face_analysis' = None
    /\ face_swapper' = face_swapper
    /\ gfpgan_restorer' = None
    /\ Forget
    /\ UNCHANGED <<managerVars, last, nextId>>

cleanup ==
    /\ _initialized
    /\ cleanups < MaxCleanups
    /\ face_analysis' = None
    /\ face_swapper' = None
    /\ gfpgan_restorer' = None
    /\ Forget
    /\ UNCHANGED <<managerVars, last, nextId>>

\* The manager on its own, with callers of its get methods: the engines
\* stay as constructed.
Next ==
    \/ \E h \in HostsAsked :
          Construct(h.cuda, h.hasMps, h.mpsAvail) /\ UNCHANGED <<swapVars, restoreVars>>
    \/ \E c \in Callers, role \in Roles :
          Invoke(c, role) /\ UNCHANGED <<swapVars, restoreVars>>
    \/ \E c \in Callers, s1 \in DetStage1, s2 \in DetStage2 :
          get_face_analysis(c, s1, s2) /\ UNCHANGED <<swapVars, restoreVars>>
    \/ \E c \in Callers, s1 \in LoadOutcome, s2 \in LoadOutcome,
          exists \in BOOLEAN, s3 \in LoadOutcome :
          get_face_swapper(c, s1, s2, exists, s3) /\ UNCHANGED <<swapVars, restoreVars>>
    \/ \E c \in Callers, local \in BOOLEAN, up \in LoadOutcome, g \in LoadOutcome :
          get_gfpgan_restorer(c, local, up, g) /\ UNCHANGED <<swapVars, restoreVars>>
    \/ cleanup /\ UNCHANGED <<swapVars, restoreVars>>

Spec == Init /\ [][Next]_vars

\* ================================================================ images
\* An image is its shape and one intensity per position (x, y); a face is the
\* box the detector reported and the identity it carries.
Max(a, b) == IF a >= b THEN a ELSE b

Min(a, b) == IF a <= b THEN a ELSE b

Saturate(v) == Max(0, Min(255, v))

Positions(w, h) == (0 .. w - 1) \X (0 .. h - 1)

Image(w, h, px) == [w |-> w, h |-> h, px |-> px]

Face(bbox, emb) == [bbox |-> bbox, emb |-> emb]

\* The frame the swap is applied to: every position has its own intensity.
TargetImage ==
    Image(ImgW, ImgH,
          [p \in Positions(ImgW, ImgH) |-> (17 + 23 * (p[2] * ImgW + p[1])) % 256])

\* Boxes a detector can report: inside the frame, overlapping its right
\* edge, beyond its right edge, above and left of its origin.
Boxes == { <<0, 0, 1, 1>>,
           <<ImgW - 1, 0, ImgW + 1, ImgH>>,
           <<ImgW, 0, ImgW + 2, ImgH>>,
           <<-2, -2, 0, 1>> }

RECURSIVE SeqsUpTo(_, _)
SeqsUpTo(S, n) ==
    IF n = 0 THEN {<<>>}
    ELSE LET shorter == SeqsUpTo(S, n - 1)
         IN  shorter \cup {Append(q, x) : q \in {r \in shorter : Len(r) = n - 1}, x \in S}

\* What self.app.get(target_img) can return.
TargetFaceLists ==
    {[i \in 1 .. Len(q) |-> Face(q[i], 0)] : q \in SeqsUpTo(Boxes, MaxFaces)}

\* What self.app.get(source_img) returns when it finds n faces.
SourceFaces(n) == [k \in 1 .. n |-> Face(<<0, 0, 1, 1>>, 10 * k)]

\* x1 = max(0, x1) ... y2 = min(original_img.shape[0], y2)
ClipBox(bbox, img) ==
    <<Max(0, bbox[1]), Max(0, bbox[2]), Min(img.w, bbox[3]), Min(img.h, bbox[4])>>

\* if x2 <= x1 or y2 <= y1
Degenerate(box) == box[3] <= box[1] \/ box[4] <= box[2]

\* The positions of img[y1:y2, x1:x2].
Region(box, img) ==
    {p \in Positions(img.w, img.h) :
        /\ box[1] <= p[1] /\ p[1] < box[3]
        /\ box[2] <= p[2] /\ p[2] < box[4]}

RECURSIVE SumOver(_, _)
SumOver(S, f) ==
    IF S = {} THEN 0
    ELSE LET p == CHOOSE q \in S : TRUE IN f[p] + SumOver(S \ {p}, f)

Mean(S, f) == SumOver(S, f) \div Cardinality(S)

\* round() of n / d to the nearest integer, ties to the even one (cvRound).
RoundHalfEven(n, d) ==
    LET q == n \div d
        r == n % d
    IN  IF 2 * r < d THEN q
        ELSE IF 2 * r > d THEN q + 1
        ELSE IF q % 2 = 0 THEN q ELSE q + 1

\* cv2.addWeighted(src1, 1 - b/BlendScale, src2, b/BlendScale, 0)
addWeighted(src1, src2, b) ==
    Image(src1.w, src1.h,
          [p \in Positions(src1.w, src1.h) |->
              Saturate(RoundHalfEven(src1.px[p] * (BlendScale - b) + src2.px[p] * b,
                                     BlendScale))])

\* -------------------------------------------------------------- FaceSwapper
\* self.swapper.get(result, target_face, source_face, paste_back=True): the
\* target face's area of the frame is repainted from the source identity.
SwapPixel(v, emb) == (v + 64 + emb) % 256

SwapOperator(img, target_face, source_face) ==
    LET area == Region(ClipBox(target_face.bbox, img), img)
    IN  Image(img.w, img.h,
              [p \in Positions(img.w, img.h) |->
                  IF p \in area THEN SwapPixel(img.px[p], source_face.emb)
                  ELSE img.px[p]])

SwapCall(i, img, source_face) == [face |-> i, input |-> img, source |-> source_face]

RECURSIVE SwapLoop(_, _, _, _, _)
\* for target_face in target_faces: result = self.swapper.get(result, ...)
\* failAt is the face on which the operator raises (0: on none).
SwapLoop(result, target_faces, i, source_face, failAt) ==
    IF i > Len(target_faces)
    THEN [img |-> result, calls |-> <<>>, raised |-> FALSE]
    ELSE IF failAt = i
    THEN [img |-> result, calls |-> <<SwapCall(i, result, source_face)>>, raised |-> TRUE]
    ELSE LET rest == SwapLoop(SwapOperator(result, target_faces[i], source_face),
                              target_faces, i + 1, source_face, failAt)
         IN  [rest EXCEPT !.calls = <<SwapCall(i, result, source_face)>> \o rest.calls]

RECURSIVE SwapLoop_isolated(_, _, _, _, _)
SwapLoop_isolated(result, target_faces, i, source_face, failAt) ==
    IF i > Len(target_faces)
    THEN [img |-> result, calls |-> <<>>, raised |-> FALSE]
    ELSE LET out  == IF failAt = i THEN result
                     ELSE SwapOperator(result, target_faces[i], source_face)
             rest == SwapLoop_isolated(out, target_faces, i + 1, source_face, failAt)
         IN  [rest EXCEPT !.calls = <<SwapCall(i, result, source_face)>> \o rest.calls]

SwapFaces_isolated(target_img, target_faces, source_face, failAt) ==
    SwapLoop_isolated(target_img, target_faces, 1, source_face, failAt)

SwapFaces_first_only(target_img, target_faces, source_face, failAt) ==
    SwapLoop(target_img, SubSeq(target_faces, 1, 1), 1, source_face, failAt)

\* result = target_img.copy(), then the loop over every detected target face.
SwapFaces(target_img, target_faces, source_face, failAt) ==
    SwapLoop(target_img, target_faces, 1, source_face, failAt)

\* Lines 101-125 on one clipped box: the swapped region's mean is moved to the
\* original region's mean, and the outcome is laid over the running result
\* under the feathered mask (integer arithmetic, spread ratio 1, weight 1/2).
Composite(result, swapped_img, original_img, box) ==
    LET area     == Region(box, original_img)
        src_mean == Mean(area, swapped_img.px)
        tgt_mean == Mean(area, original_img.px)
    IN  Image(result.w, result.h,
              [p \in Positions(result.w, result.h) |->
                  IF p \in area
                  THEN (Saturate(swapped_img.px[p] - src_mean + tgt_mean)
                          + result.px[p]) \div 2
                  ELSE result.px[p]])

CcStep(i, skipped, before, after) ==
    [face |-> i, skipped |-> skipped, before |-> before, after |-> after]

CorrectFace_degenerate_raises(result, swapped_img, original_img, face, fails) ==
    LET box == ClipBox(face.bbox, original_img)
    IN  IF Degenerate(box) \/ fails
        THEN [img |-> result, skipped |-> FALSE, raised |-> TRUE]
        ELSE [img |-> Composite(result, swapped_img, original_img, box),
              skipped |-> FALSE, raised |-> FALSE]

\* The body of "for face in faces:" for one face; fails says that the
\* arithmetic on this face's regions raises when it is reached.
CorrectFace(result, swapped_img, original_img, face, fails) ==
    LET box == ClipBox(face.bbox, original_img)
    IN  IF Degenerate(box)
        THEN [img |-> result, skipped |-> TRUE, raised |-> FALSE]
        ELSE IF Region(box, swapped_img) = {} \/ Region(box, original_img) = {}
        THEN [img |-> result, skipped |-> TRUE, raised |-> FALSE]
        ELSE IF fails
        THEN [img |-> result, skipped |-> FALSE, raised |-> TRUE]
        ELSE [img |-> Composite(result, swapped_img, original_img, box),
              skipped |-> FALSE, raised |-> FALSE]

RECURSIVE ColorLoop(_, _, _, _, _, _)
ColorLoop(result, swapped_img, original_img, faces, i, failAt) ==
    IF i > Len(faces)
    THEN [img |-> result, steps |-> <<>>, failed |-> FALSE]
    ELSE LET one == CorrectFace(result, swapped_img, original_img, faces[i], failAt = i)
         IN  IF one.raised
             THEN [img |-> result, steps |-> <<>>, failed |-> TRUE]
             ELSE LET rest == ColorLoop(one.img, swapped_img, original_img, faces,
                                        i + 1, failAt)
                  IN  [rest EXCEPT !.steps =
                         <<CcStep(i, one.skipped, result, one.img)>> \o rest.steps]

_apply_color_correction_reraises(swapped_img, original_img, faces, failAt) ==
    LET r == ColorLoop(swapped_img, swapped_img, original_img, faces, 1, failAt)
    IN  [img |-> r.img, steps |-> r.steps, failed |-> r.failed, raised |-> r.failed,
         buffer |-> swapped_img]

RECURSIVE ColorLoop_in_place(_, _, _, _, _)
ColorLoop_in_place(result, original_img, faces, i, failAt) ==
    IF i > Len(faces)
    THEN [img |-> result, steps |-> <<>>, failed |-> FALSE]
    ELSE LET one == CorrectFace(result, result, original_img, faces[i], failAt = i)
         IN  IF one.raised
             THEN [img |-> result, steps |-> <<>>, failed |-> TRUE]
             ELSE LET rest == ColorLoop_in_place(one.img, original_img, faces, i + 1, failAt)
                  IN  [rest EXCEPT !.steps =
                         <<CcStep(i, one.skipped, result, one.img)>> \o rest.steps]

_apply_color_correction_in_place(swapped_img, original_img, faces, failAt) ==
    LET r == ColorLoop_in_place(swapped_img, original_img, faces, 1, failAt)
    IN  [img |-> r.img, steps |-> r.steps, failed |-> r.failed, raised |-> FALSE,
         buffer |-> r.img]

\* result = swapped_img.copy(); the loop; "except Exception: return swapped_img".
\* failed: an exception was caught; raised: one left the function; buffer:
\* what the caller's swapped_img array holds afterwards (the loop writes to
\* the copy only).
_apply_color_correction(swapped_img, original_img, faces, failAt) ==
    LET r == ColorLoop(swapped_img, swapped_img, original_img, faces, 1, failAt)
    IN  [img |-> IF r.failed THEN swapped_img ELSE r.img,
         steps |-> r.steps, failed |-> r.failed, raised |-> FALSE,
         buffer |-> swapped_img]

NoCorrection(img) ==
    [img |-> img, steps |-> <<>>, failed |-> FALSE, raised |-> FALSE, buffer |-> img]

BlendWithTarget_skips_zero(target_img, result, b) ==
    IF 0 < b /\ b < BlendScale THEN addWeighted(target_img, result, b) ELSE result

\* if blend_strength < 1.0: result = cv2.addWeighted(target_img, 1 - b, result, b, 0)
BlendWithTarget(target_img, result, b) ==
    IF b < BlendScale THEN addWeighted(target_img, result, b) ELSE result

NoFace_source_only(source_faces, target_faces) ==
    IF Len(source_faces) = 0 THEN "source" ELSE "none"

\* The two "if len(...) == 0: raise ValueError" tests, source first.
NoFace(source_faces, target_faces) ==
    IF Len(source_faces) = 0 THEN "source"
    ELSE IF Len(target_faces) = 0 THEN "target"
    ELSE "none"

\* A call that raises returns no image.
NoImage == [w |-> 0, h |-> 0, px |-> <<>>]

\* What one swap_face call did, from its try block to its return or raise.
SwapRun(kind, side, detections, calls, swapped, cc, ccRan, mixed, img) ==
    [kind |-> kind, side |-> side, detections |-> detections, calls |-> calls,
     swapped |-> swapped, cc |-> cc, ccRan |-> ccRan, mixed |-> mixed, img |-> img]

\* The try block of swap_face (lines 45-68).
SwapBody(source_faces, target_img, target_faces, b, color_correction, swapFailAt, ccFailAt) ==
    LET detections == <<"source", "target">>
        side  == NoFace(source_faces, target_faces)
        swaps == SwapFaces(target_img, target_faces, source_faces[1], swapFailAt)
        cc    == IF color_correction
                 THEN _apply_color_correction(swaps.img, target_img, target_faces, ccFailAt)
                 ELSE NoCorrection(swaps.img)
    IN  IF side # "none"
        THEN SwapRun("no_face", side, detections, <<>>, target_img,
                     NoCorrection(target_img), FALSE, FALSE, NoImage)
        ELSE IF swaps.raised
        THEN SwapRun("raise", "none", detections, swaps.calls, swaps.img,
                     NoCorrection(swaps.img), FALSE, FALSE, NoImage)
        ELSE IF cc.raised
        THEN SwapRun("raise", "none", detections, swaps.calls, swaps.img, cc,
                     color_correction, FALSE, NoImage)
        ELSE SwapRun("image", "none", detections, swaps.calls, swaps.img, cc,
                     color_correction, b < BlendScale,
                     BlendWithTarget(target_img, cc.img, b))

\* ------------------------------------------------- the engines' environment
\* The state the engines run in: model_manager has been constructed at
\* import on host h and nothing has been loaded.
Constructed(h) ==
    /\ _instance = 1
    /\ _initialized = TRUE
    /\ device = _get_best_device(h.cuda, h.hasMps, h.mpsAvail)
    /\ use_mps = (device = "mps")
    /\ face_analysis = None
    /\ face_swapper = None
    /\ gfpgan_restorer = None
    /\ pc = [c \in Callers |-> Idle]
    /\ last = NoGet
    /\ nextId = [r \in Roles |-> 1]
    /\ allocs = 1
    /\ resolves = 1
    /\ firstDevice = device
    /\ resolvedFrom = h
    /\ reconstructed = FALSE
    /\ cleanups = 0
    /\ idAtCleanup = [r \in Roles |-> 1]
    /\ loads = [r \in Roles |-> 0]
    /\ returned = [r \in Roles |-> {}]
    /\ fan = [r \in Roles |-> {}]

\* One host per device the manager can choose.
EngineHosts == {Host(FALSE, FALSE, FALSE), Host(TRUE, FALSE, FALSE), Host(FALSE, TRUE, TRUE)}

\* The swap engine reads no device: one accelerated host and one without.
SwapHosts == {Host(FALSE, FALSE, FALSE), Host(TRUE, FALSE, FALSE)}

\* What the manager's history keeps while an engine, not a caller of the
\* manager's own model, drives it.
managerHistory == <<pc, last, cleanups, idAtCleanup, loads, returned, fan>>

\* How the loads an initialize starts turn out: the detector's two stages
\* and the swapper's three with the local file's presence.
SwapLoad(d1, d2, w1, w2, exists, w3) ==
    [d1 |-> d1, d2 |-> d2, w1 |-> w1, w2 |-> w2, exists |-> exists, w3 |-> w3]

NoSwapLoad == SwapLoad("ok", "ok", "ok", "ok", FALSE, "ok")

DetectorLoads == {<<"ok", "ok">>, <<"prep_exc", "ok">>, <<"prep_exc", "prep_exc">>,
                  <<"ctor_exc", "ctor_exc">>}

SwapperLoads == {<<"ok", "ok", FALSE, "ok">>, <<"raise", "raise", TRUE, "ok">>,
                 <<"raise", "raise", FALSE, "raise">>}

\* A load's outcomes are drawn only when initialize will start the load.
SwapLoadsAsked ==
    IF swap_initialized THEN {NoSwapLoad}
    ELSE {SwapLoad(d[1], d[2], w[1], w[2], w[3], w[4]) :
            d \in (IF face_analysis = None THEN DetectorLoads ELSE {<<"ok", "ok">>}),
            w \in (IF face_swapper = None THEN SwapperLoads
                   ELSE {<<"ok", "ok", FALSE, "ok">>})}

\* One call of a manager get by an engine: the role asked for, what the get
\* gave, and whether it ran a load.
Got(role, res) == [role |-> role, kind |-> res.kind, ran |-> res.ran]

InitializeSwapper_marks_failure(li) ==
    LET det == IF face_analysis = None
               THEN LoadFaceAnalysis(device, li.d1, li.d2, nextId["detector"])
               ELSE Cached(face_analysis)
        sw  == IF face_swapper = None
               THEN LoadFaceSwapper(device, li.w1, li.w2, li.exists, li.w3,
                                    nextId["swapper"])
               ELSE Cached(face_swapper)
    IN  IF swap_initialized
        THEN [raised |-> FALSE, ran |-> FALSE, app |-> app, swapper |-> swapper,
              is_initialized |-> TRUE, face_analysis |-> face_analysis,
              face_swapper |-> face_swapper, nextId |-> nextId, gets |-> <<>>]
        ELSE IF det.kind = "raise"
        THEN [raised |-> TRUE, ran |-> TRUE, app |-> app, swapper |-> swapper,
              is_initialized |-> TRUE, face_analysis |-> det.cache,
              face_swapper |-> face_swapper,
              nextId |-> [nextId EXCEPT !["detector"] = @ + det.made],
              gets |-> <<Got("detector", det)>>]
        ELSE [raised |-> sw.kind = "raise", ran |-> TRUE, app |-> det.cache,
              swapper |-> IF sw.kind = "raise" THEN swapper ELSE sw.cache,
              is_initialized |-> TRUE, face_analysis |-> det.cache,
              face_swapper |-> sw.cache,
              nextId |-> [nextId EXCEPT !["detector"] = @ + det.made,
                                        !["swapper"] = @ + sw.made],
              gets |-> <<Got("detector", det), Got("swapper", sw)>>]

\* FaceSwapper.initialize (lines 17-32) as the values it leaves behind.
InitializeSwapper(li) ==
    LET det == IF face_analysis = None
               THEN LoadFaceAnalysis(device, li.d1, li.d2, nextId["detector"])
               ELSE Cached(face_analysis)
        sw  == IF face_swapper = None
               THEN LoadFaceSwapper(device, li.w1, li.w2, li.exists, li.w3,
                                    nextId["swapper"])
               ELSE Cached(face_swapper)
    IN  IF swap_initialized
        THEN [raised |-> FALSE, ran |-> FALSE, app |-> app, swapper |-> swapper,
              is_initialized |-> TRUE, face_analysis |-> face_analysis,
              face_swapper |-> face_swapper, nextId |-> nextId, gets |-> <<>>]
        ELSE IF det.kind = "raise"
        THEN [raised |-> TRUE, ran |-> TRUE, app |-> app, swapper |-> swapper,
              is_initialized |-> FALSE, face_analysis |-> det.cache,
              face_swapper |-> face_swapper,
              nextId |-> [nextId EXCEPT !["detector"] = @ + det.made],
              gets |-> <<Got("detector", det)>>]
        ELSE [raised |-> sw.kind = "raise", ran |-> TRUE, app |-> det.cache,
              swapper |-> IF sw.kind = "raise" THEN swapper ELSE sw.cache,
              is_initialized |-> sw.kind # "raise", face_analysis |-> det.cache,
              face_swapper |-> sw.cache,
              nextId |-> [nextId EXCEPT !["detector"] = @ + det.made,
                                        !["swapper"] = @ + sw.made],
              gets |-> <<Got("detector", det), Got("swapper", sw)>>]

\* The assignments an initialize makes, on the engine and in the manager.
SwapperInitialized(ini) ==
    /\ app' = ini.app
    /\ swapper' = ini.swapper
    /\ swap_initialized' = ini.is_initialized
    /\ face_analysis' = ini.face_analysis
    /\ face_swapper' = ini.face_swapper
    /\ nextId' = ini.nextId

\* The engine's methods do not suspend, so its calls follow one another:
\* each starts after the caller has taken the outcome of the one before.
FaceSwapper_initialize(li) ==
    LET ini == InitializeSwapper(li)
    IN  /\ swapLast = NoCall
        /\ SwapperInitialized(ini)
        /\ swapLast' = [op |-> "initialize", kind |-> IF ini.raised THEN "raise" ELSE "none",
                        ran |-> ini.ran, gets |-> ini.gets, by |-> "caller"]
        /\ UNCHANGED <<managerVars, gfpgan_restorer, managerHistory, restoreVars>>

\* How many faces the detector finds in a source image.
SourceCounts == {0, 1, 2}

\* The inputs of one swap_face call past its initialize: the faces the
\* detector finds in the two images, the call's parameters, and the face on
\* which the swap operator, and the colour arithmetic, raise (0: none).
SwapInputs ==
    {[nSource |-> n, target_faces |-> tf, b |-> b, color_correction |-> cc,
      swapFailAt |-> sf, ccFailAt |-> cf] :
        n \in SourceCounts, tf \in TargetFaceLists, b \in 0 .. BlendScale,
        cc \in BOOLEAN, sf \in 0 .. MaxFaces, cf \in 0 .. MaxFaces}

\* Inputs that differ only where the call cannot read them are one input.
SwapInputsRead ==
    {in \in SwapInputs :
        /\ in.swapFailAt <= Len(in.target_faces)
        /\ in.ccFailAt <= Len(in.target_faces)
        /\ (in.nSource = 0 \/ Len(in.target_faces) = 0) =>
              (in.swapFailAt = 0 /\ in.ccFailAt = 0)
        /\ ~in.color_correction => in.ccFailAt = 0
        /\ in.swapFailAt # 0 =>
              (~in.color_correction /\ in.ccFailAt = 0 /\ in.b = BlendScale)}

\* swap_face (lines 34-72): the implicit initialize, then the try block.
swap_face(li, in) ==
    LET ini == InitializeSwapper(li)
        run == SwapBody(SourceFaces(in.nSource), TargetImage, in.target_faces, in.b,
                        in.color_correction, in.swapFailAt, in.ccFailAt)
    IN  /\ swapLast = NoCall
        /\ SwapperInitialized(ini)
        /\ swapLast' = IF ini.raised
                       THEN [op |-> "swap_face", kind |-> "raise", at |-> "initialize",
                             gets |-> ini.gets, was_initialized |-> swap_initialized]
                       ELSE [op |-> "swap_face", kind |-> run.kind, at |-> "body",
                             gets |-> ini.gets, was_initialized |-> swap_initialized,
                             in |-> in, target_img |-> TargetImage,
                             source_faces |-> SourceFaces(in.nSource),
                             app |-> ini.app, swapper |-> ini.swapper, run |-> run]
        /\ UNCHANGED <<managerVars, gfpgan_restorer, managerHistory, restoreVars>>

\* dispose (lines 133-136)
FaceSwapper_dispose ==
    /\ swapLast = NoCall
    /\ app' = None
    /\ swapper' = None
    /\ swap_initialized' = FALSE
    /\ swapLast' = [op |-> "dispose"]
    /\ UNCHANGED <<managerVars, face_analysis, face_swapper, gfpgan_restorer,
                   nextId, managerHistory, restoreVars>>

\* The caller takes what the call returned or raised.
FaceSwapper_return ==
    /\ swapLast # NoCall
    /\ swapLast' = NoCall
    /\ UNCHANGED <<managerVars, face_analysis, face_swapper, gfpgan_restorer,
                   nextId, managerHistory, app, swapper, swap_initialized,
                   restoreVars>>

InitSwap ==
    /\ \E h \in SwapHosts : Constructed(h)
    /\ app = None
    /\ swapper = None
    /\ swap_initialized = FALSE
    /\ swapLast = NoCall
    /\ gfpgan = None
    /\ restore_initialized = FALSE
    /\ restoreLast = NoCall

NextSwap ==
    \/ \E li \in SwapLoadsAsked : FaceSwapper_initialize(li)
    \/ \E li \in SwapLoadsAsked : \E in \in SwapInputsRead : swap_face(li, in)
    \/ FaceSwapper_dispose
    \/ FaceSwapper_return

SpecSwap == InitSwap /\ [][NextSwap]_vars

\* ---------------------------------------------------------- FaceRestoration
\* How the restorer load an initialize starts turns out.
RestoreLoad(local, up, g) == [local |-> local, up |-> up, g |-> g]

NoRestoreLoad == RestoreLoad(TRUE, "ok", "ok")

\* A load's outcomes are drawn only when initialize will start the load.
RestoreLoadsAsked ==
    IF restore_initialized \/ gfpgan_restorer # None THEN {NoRestoreLoad}
    ELSE {RestoreLoad(TRUE, up, g) : up \in LoadOutcome, g \in LoadOutcome}

\* FaceRestoration.initialize (lines 14-28) as the values it leaves behind:
\* a get that raised is caught, and the engine is initialized either way.
InitializeRestorer(li) ==
    LET res == IF gfpgan_restorer = None
               THEN LoadGfpgan(device, li.local, li.up, li.g, nextId["restorer"])
               ELSE Cached(gfpgan_restorer)
    IN  IF restore_initialized
        THEN [raised |-> FALSE, ran |-> FALSE, gfpgan |-> gfpgan, is_initialized |-> TRUE,
              gfpgan_restorer |-> gfpgan_restorer, nextId |-> nextId, gets |-> <<>>]
        ELSE [raised |-> FALSE, ran |-> TRUE,
              gfpgan |-> IF res.kind = "handle" THEN res.cache ELSE None,
              is_initialized |-> TRUE, gfpgan_restorer |-> res.cache,
              nextId |-> [nextId EXCEPT !["restorer"] = @ + res.made],
              gets |-> <<Got("restorer", res)>>]

RestorerInitialized(ini) ==
    /\ gfpgan' = ini.gfpgan
    /\ restore_initialized' = ini.is_initialized
    /\ gfpgan_restorer' = ini.gfpgan_restorer
    /\ nextId' = ini.nextId

FaceRestoration_initialize(li) ==
    LET ini == InitializeRestorer(li)
    IN  /\ restoreLast = NoCall
        /\ RestorerInitialized(ini)
        /\ restoreLast' = [op |-> "initialize",
                           kind |-> IF ini.raised THEN "raise" ELSE "none",
                           ran |-> ini.ran, gfpgan |-> ini.gfpgan, gets |-> ini.gets,
                           by |-> "caller"]
        /\ UNCHANGED <<managerVars, face_analysis, face_swapper, managerHistory, swapVars>>

\* The classical filters keep the image's shape; their arithmetic is a
\* stand-in that changes the image.
ImageMean(img) == Mean(Positions(img.w, img.h), img.px)

\* cv2.fastNlMeansDenoisingColored(img, None, h, h, 7, 21)
fastNlMeansDenoisingColored(img, h) ==
    LET smooth(v) == (v + h * ImageMean(img)) \div (h + 1)
    IN  Image(img.w, img.h, [p \in Positions(img.w, img.h) |-> smooth(img.px[p])])

\* h = int(level * 10) with level = d / 20
DenoiseH(d) == d \div 2

_denoise_always(img, d) == fastNlMeansDenoisingColored(img, Max(1, DenoiseH(d)))

\* _denoise (lines 90-95)
_denoise(img, d) ==
    IF DenoiseH(d) < 1 THEN img ELSE fastNlMeansDenoisingColored(img, DenoiseH(d))

\* _enhance_details (lines 97-107)
_enhance_details(img) ==
    LET stretch(v) == Saturate(v + (v - ImageMean(img)) \div 2)
    IN  Image(img.w, img.h, [p \in Positions(img.w, img.h) |-> stretch(img.px[p])])

\* _sharpen (lines 109-113)
_sharpen(img, a) ==
    LET sharp(v) == Saturate(v + a * (v - ImageMean(img)))
    IN  Image(img.w, img.h, [p \in Positions(img.w, img.h) |-> sharp(img.px[p])])

\* self.gfpgan.enhance(...) between two colour conversions (lines 67-88);
\* op is what the operator does: "ok", "none" (no image returned), "raise".
_restore_with_gfpgan(img, s, op) ==
    LET enhance(v) == Saturate(v + 30 + s)
    IN  IF op = "raise" THEN [img |-> img, calls |-> 1, caught |-> TRUE]
        ELSE IF op = "none" THEN [img |-> img, calls |-> 1, caught |-> FALSE]
        ELSE [img |-> Image(img.w, img.h,
                            [p \in Positions(img.w, img.h) |-> enhance(img.px[p])]),
              calls |-> 1, caught |-> FALSE]

HasRestorer_unchecked(gf) == TRUE

\* if self.gfpgan is not None
HasRestorer(gf) == gf # None

MixWithInput_skips_zero(img, result, s) ==
    IF 0 < s /\ s < BlendScale THEN addWeighted(img, result, s) ELSE result

\* if strength < 1.0: result = cv2.addWeighted(img, 1 - strength, result, strength, 0)
MixWithInput(img, result, s) ==
    IF s < BlendScale THEN addWeighted(img, result, s) ELSE result

Classical_sharpen_first(img, d, e, a, fail) ==
    LET run1   == d > 0
        after1 == IF run1 THEN _denoise(img, d) ELSE img
        run3   == a > 0
        after3 == IF run3 THEN _sharpen(after1, a) ELSE after1
        run2   == e
        after2 == IF run2 THEN _enhance_details(after3) ELSE after3
    IN  [img    |-> after2,
         stages |-> (IF ~run1 THEN <<>>
                     ELSE IF DenoiseH(d) >= 1 THEN <<"denoise">> ELSE <<"denoise_noop">>)
                      \o (IF run3 THEN <<"sharpen">> ELSE <<>>)
                      \o (IF run2 THEN <<"enhance">> ELSE <<>>),
         raised |-> FALSE]

\* The classical stages in order; each is named once it is called, a
\* _denoise that returns its input for h < 1 as "denoise_noop".
\* fail is the stage whose filter raises when it runs ("none": none does).
Classical(img, d, e, a, fail) ==
    LET run1   == d > 0
        raise1 == run1 /\ DenoiseH(d) >= 1 /\ fail = "denoise"
        after1 == IF run1 THEN _denoise(img, d) ELSE img
        run2   == e /\ ~raise1
        raise2 == run2 /\ fail = "enhance"
        after2 == IF run2 THEN _enhance_details(after1) ELSE after1
        run3   == a > 0 /\ ~raise1 /\ ~raise2
        raise3 == run3 /\ fail = "sharpen"
        after3 == IF run3 THEN _sharpen(after2, a) ELSE after2
    IN  [img    |-> after3,
         stages |-> (IF ~run1 THEN <<>>
                     ELSE IF DenoiseH(d) >= 1 THEN <<"denoise">> ELSE <<"denoise_noop">>)
                      \o (IF run2 THEN <<"enhance">> ELSE <<>>)
                      \o (IF run3 THEN <<"sharpen">> ELSE <<>>),
         raised |-> raise1 \/ raise2 \/ raise3]

\* What one restore call did, from its try block to its return or raise.
RestoreRun(kind, path, stages, calls, caught, filtered, mixed, img) ==
    [kind |-> kind, path |-> path, stages |-> stages, calls |-> calls,
     caught |-> caught, filtered |-> filtered, mixed |-> mixed, img |-> img]

RestoreBody_model_then_mix(gf, img, s, d, a, e, op, fail) ==
    LET model == _restore_with_gfpgan(img, s, op)
        cl    == Classical(img, d, e, a, fail)
    IN  IF HasRestorer(gf)
        THEN RestoreRun("image", "model", <<>>, model.calls, model.caught, model.img,
                        s < BlendScale, MixWithInput(img, model.img, s))
        ELSE IF cl.raised
        THEN RestoreRun("raise", "classical", cl.stages, 0, FALSE, cl.img, FALSE, NoImage)
        ELSE RestoreRun("image", "classical", cl.stages, 0, FALSE, cl.img,
                        s < BlendScale, MixWithInput(img, cl.img, s))

\* The try block of restore (lines 41-61).
RestoreBody(gf, img, s, d, a, e, op, fail) ==
    LET model == _restore_with_gfpgan(img, s, op)
        cl    == Classical(img, d, e, a, fail)
    IN  IF HasRestorer(gf)
        THEN RestoreRun("image", "model", <<>>, model.calls, model.caught, model.img,
                        FALSE, model.img)
        ELSE IF cl.raised
        THEN RestoreRun("raise", "classical", cl.stages, 0, FALSE, cl.img, FALSE, NoImage)
        ELSE RestoreRun("image", "classical", cl.stages, 0, FALSE, cl.img,
                        s < BlendScale, MixWithInput(img, cl.img, s))

DenoiseLevels == {0, 1, 2}

SharpenAmounts == {0, 1}

RestoreInputs ==
    {[s |-> s, d |-> d, a |-> a, e |-> e, op |-> op, fail |-> fail] :
        s \in 0 .. BlendScale, d \in DenoiseLevels, a \in SharpenAmounts,
        e \in BOOLEAN, op \in {"ok", "none", "raise"},
        fail \in {"none", "denoise", "enhance", "sharpen"}}

\* Inputs that differ only where the call cannot read them are one input.
RestoreInputsRead(gf) ==
    {in \in RestoreInputs :
        IF gf # None
        THEN in.d = 0 /\ in.a = 0 /\ ~in.e /\ in.fail = "none"
        ELSE in.op = "ok"}

restore_reconsults(li, in) ==
    LET ini == InitializeRestorer(li)
        run == RestoreBody(ini.gfpgan_restorer, TargetImage, in.s, in.d, in.a, in.e, in.op,
                           in.fail)
    IN  /\ restoreLast = NoCall
        /\ in \in RestoreInputsRead(ini.gfpgan_restorer)
        /\ RestorerInitialized(ini)
        /\ restoreLast' = [op |-> "restore", kind |-> run.kind, in |-> in,
                           gets |-> ini.gets, was_initialized |-> restore_initialized,
                           img |-> TargetImage, gfpgan |-> ini.gfpgan, run |-> run]
        /\ UNCHANGED <<managerVars, face_analysis, face_swapper, managerHistory, swapVars>>

\* restore (lines 30-65): the implicit initialize, then the try block.
restore(li, in) ==
    LET ini == InitializeRestorer(li)
        run == RestoreBody(ini.gfpgan, TargetImage, in.s, in.d, in.a, in.e, in.op, in.fail)
    IN  /\ restoreLast = NoCall
        /\ in \in RestoreInputsRead(ini.gfpgan)
        /\ RestorerInitialized(ini)
        /\ restoreLast' = [op |-> "restore", kind |-> run.kind, in |-> in,
                           gets |-> ini.gets, was_initialized |-> restore_initialized,
                           img |-> TargetImage, gfpgan |-> ini.gfpgan, run |-> run]
        /\ UNCHANGED <<managerVars, face_analysis, face_swapper, managerHistory, swapVars>>

\* dispose (lines 115-117)
FaceRestoration_dispose ==
    /\ restoreLast = NoCall
    /\ gfpgan' = None
    /\ restore_initialized' = FALSE
    /\ restoreLast' = [op |-> "dispose"]
    /\ UNCHANGED <<managerVars, face_analysis, face_swapper, gfpgan_restorer,
                   nextId, managerHistory, swapVars>>

\* The caller takes what the call returned or raised.
FaceRestoration_return ==
    /\ restoreLast # NoCall
    /\ restoreLast' = NoCall
    /\ UNCHANGED <<managerVars, face_analysis, face_swapper, gfpgan_restorer,
                   nextId, managerHistory, swapVars, gfpgan, restore_initialized>>

\* model_manager.get_gfpgan_restorer() called by someone other than the
\* engine, between the engine's calls.
direct_get_gfpgan_restorer(local, up, g) ==
    LET res == IF gfpgan_restorer = None
               THEN LoadGfpgan(device, local, up, g, nextId["restorer"])
               ELSE Cached(gfpgan_restorer)
    IN  /\ restoreLast = NoCall
        /\ gfpgan_restorer' = res.cache
        /\ nextId' = [nextId EXCEPT !["restorer"] = @ + res.made]
        /\ UNCHANGED <<managerVars, face_analysis, face_swapper, managerHistory,
                       swapVars, restoreVars>>

\* model_manager.cleanup() between the restoration engine's calls.
cleanup_during_restoration ==
    /\ restoreLast = NoCall
    /\ cleanup
    /\ UNCHANGED <<swapVars, restoreVars>>

InitRestore ==
    /\ \E h \in EngineHosts : Constructed(h)
    /\ app = None
    /\ swapper = None
    /\ swap_initialized = FALSE
    /\ swapLast = NoCall
    /\ gfpgan = None
    /\ restore_initialized = FALSE
    /\ restoreLast = NoCall

NextRestore ==
    \/ \E li \in RestoreLoadsAsked : FaceRestoration_initialize(li)
    \/ \E li \in RestoreLoadsAsked : \E in \in RestoreInputs : restore(li, in)
    \/ FaceRestoration_dispose
    \/ FaceRestoration_return
    \/ \E up \in LoadOutcome, g \in LoadOutcome : direct_get_gfpgan_restorer(TRUE, up, g)
    \/ cleanup_during_restoration

SpecRestore == InitRestore /\ [][NextRestore]_vars

\* ------------------------------------------------------------ startup_event
startup_event_independent(ls, lr) ==
    LET si == InitializeSwapper(ls)
        ri == InitializeRestorer(lr)
        rl == [op |-> "initialize", kind |-> "none", ran |-> ri.ran,
               gfpgan |-> ri.gfpgan, gets |-> ri.gets, by |-> "startup_event"]
    IN  /\ swapLast = NoCall /\ restoreLast = NoCall
        /\ app' = si.app
        /\ swapper' = si.swapper
        /\ swap_initialized' = si.is_initialized
        /\ face_analysis' = si.face_analysis
        /\ face_swapper' = si.face_swapper
        /\ swapLast' = [op |-> "initialize", kind |-> IF si.raised THEN "raise" ELSE "none",
                        ran |-> si.ran, gets |-> si.gets, by |-> "startup_event",
                        next |-> rl]
        /\ gfpgan' = ri.gfpgan
        /\ restore_initialized' = ri.is_initialized
        /\ gfpgan_restorer' = ri.gfpgan_restorer
        /\ nextId' = [si.nextId EXCEPT !["restorer"] = ri.nextId["restorer"]]
        /\ restoreLast' = rl
        /\ UNCHANGED <<managerVars, managerHistory>>

\* startup_event (main.py lines 35-54): face_swapper.initialize(), then
\* face_restoration.initialize() unless the first raised; neither suspends.
\* The record of the first keeps what the handler did next.
startup_event(ls, lr) ==
    LET si == InitializeSwapper(ls)
        ri == InitializeRestorer(lr)
        rl == IF si.raised THEN NoCall
              ELSE [op |-> "initialize", kind |-> "none", ran |-> ri.ran,
                    gfpgan |-> ri.gfpgan, gets |-> ri.gets, by |-> "startup_event"]
    IN  /\ swapLast = NoCall /\ restoreLast = NoCall
        /\ app' = si.app
        /\ swapper' = si.swapper
        /\ swap_initialized' = si.is_initialized
        /\ face_analysis' = si.face_analysis
        /\ face_swapper' = si.face_swapper
        /\ swapLast' = [op |-> "initialize", kind |-> IF si.raised THEN "raise" ELSE "none",
                        ran |-> si.ran, gets |-> si.gets, by |-> "startup_event",
                        next |-> rl]
        /\ IF si.raised
           THEN /\ UNCHANGED <<gfpgan, restore_initialized, gfpgan_restorer>>
                /\ nextId' = si.nextId
                /\ restoreLast' = NoCall
           ELSE /\ gfpgan' = ri.gfpgan
                /\ restore_initialized' = ri.is_initialized
                /\ gfpgan_restorer' = ri.gfpgan_restorer
                /\ nextId' = [si.nextId EXCEPT !["restorer"] = ri.nextId["restorer"]]
                /\ restoreLast' = rl
        /\ UNCHANGED <<managerVars, managerHistory>>

\* The initialization lifecycle of the two engines of main.py: the startup
\* handler, and the initialize and dispose calls made on either engine.
InitStartup ==
    /\ \E h \in EngineHosts : Constructed(h)
    /\ app = None
    /\ swapper = None
    /\ swap_initialized = FALSE
    /\ swapLast = NoCall
    /\ gfpgan = None
    /\ restore_initialized = FALSE
    /\ restoreLast = NoCall

NextStartup ==
    \/ \E ls \in SwapLoadsAsked, lr \in RestoreLoadsAsked : startup_event(ls, lr)
    \/ \E li \in SwapLoadsAsked : FaceSwapper_initialize(li)
    \/ \E li \in RestoreLoadsAsked : FaceRestoration_initialize(li)
    \/ FaceSwapper_dispose
    \/ FaceRestoration_dispose
    \/ FaceSwapper_return
    \/ FaceRestoration_return

SpecStartup == InitStartup /\ [][NextStartup]_vars

\* ------------------------------------------------- cleanup and the engines
\* model_manager.get_face_analysis() and get_face_swapper() called by
\* someone other than the engine, between the engines' calls.
direct_get_face_analysis(s1, s2) ==
    LET res == IF face_analysis = None
               THEN LoadFaceAnalysis(device, s1, s2, nextId["detector"])
               ELSE Cached(face_analysis)
    IN  /\ swapLast = NoCall
        /\ face_analysis' = res.cache
        /\ nextId' = [nextId EXCEPT !["detector"] = @ + res.made]
        /\ UNCHANGED <<managerVars, face_swapper, gfpgan_restorer, managerHistory,
                       swapVars, restoreVars>>

direct_get_face_swapper(s1, s2, exists, s3) ==
    LET res == IF face_swapper = None
               THEN LoadFaceSwapper(device, s1, s2, exists, s3, nextId["swapper"])
               ELSE Cached(face_swapper)
    IN  /\ swapLast = NoCall
        /\ face_swapper' = res.cache
        /\ nextId' = [nextId EXCEPT !["swapper"] = @ + res.made]
        /\ UNCHANGED <<managerVars, face_analysis, gfpgan_restorer, managerHistory,
                       swapVars, restoreVars>>

cleanup_resets_engines ==
    /\ swapLast = NoCall /\ restoreLast = NoCall
    /\ cleanup
    /\ app' = None
    /\ swapper' = None
    /\ swap_initialized' = FALSE
    /\ gfpgan' = None
    /\ restore_initialized' = FALSE
    /\ UNCHANGED <<swapLast, restoreLast>>

\* model_manager.cleanup() between the engines' calls: it assigns the
\* manager's three attributes and nothing of the engines.
cleanup_between_calls ==
    /\ swapLast = NoCall /\ restoreLast = NoCall
    /\ cleanup
    /\ UNCHANGED <<swapVars, restoreVars>>

\* The calls whose handles are followed: one source face, one target face
\* inside the frame, full blend and no failing stage; full strength and no
\* failing filter.
SwapInputsPlain ==
    {in \in SwapInputsRead :
        /\ in.nSource = 1 /\ Len(in.target_faces) = 1
        /\ in.target_faces[1].bbox = <<0, 0, 1, 1>>
        /\ in.b = BlendScale /\ ~in.color_correction
        /\ in.swapFailAt = 0 /\ in.ccFailAt = 0}

RestoreInputsPlain(gf) ==
    {in \in RestoreInputsRead(gf) :
        /\ in.s = BlendScale /\ in.fail = "none" /\ in.op \in {"ok", "none"}
        /\ in.d = 0 /\ in.a = 0 /\ ~in.e}

InitCleanup ==
    /\ \E h \in SwapHosts : Constructed(h)
    /\ app = None
    /\ swapper = None
    /\ swap_initialized = FALSE
    /\ swapLast = NoCall
    /\ gfpgan = None
    /\ restore_initialized = FALSE
    /\ restoreLast = NoCall

\* One call at a time: each call is taken by its caller before the next.
BetweenCalls == swapLast = NoCall /\ restoreLast = NoCall

NextCleanup ==
    \/ \E li \in SwapLoadsAsked : BetweenCalls /\ FaceSwapper_initialize(li)
    \/ \E li \in RestoreLoadsAsked : BetweenCalls /\ FaceRestoration_initialize(li)
    \/ \E li \in SwapLoadsAsked : \E in \in SwapInputsPlain :
          BetweenCalls /\ swap_face(li, in)
    \/ \E li \in RestoreLoadsAsked :
          \E in \in RestoreInputsPlain(InitializeRestorer(li).gfpgan) :
             BetweenCalls /\ restore(li, in)
    \/ BetweenCalls /\ FaceSwapper_dispose
    \/ BetweenCalls /\ FaceRestoration_dispose
    \/ FaceSwapper_return
    \/ FaceRestoration_return
    \/ \E d \in DetectorLoads :
          BetweenCalls /\ direct_get_face_analysis(d[1], d[2])
    \/ \E w \in SwapperLoads :
          BetweenCalls /\ direct_get_face_swapper(w[1], w[2], w[3], w[4])
    \/ \E up \in LoadOutcome, g \in LoadOutcome :
          BetweenCalls /\ direct_get_gfpgan_restorer(TRUE, up, g)
    \/ cleanup_between_calls

SpecCleanup == InitCleanup /\ [][NextCleanup]_vars

\* ================================================================ properties
CacheOf(r) ==
    IF r = "detector" THEN face_analysis
    ELSE IF r = "swapper" THEN face_swapper
    ELSE gfpgan_restorer

\* The stages of the last get's load were attempted in cascade order, each
\* only after the one before it had failed.
InCascadeOrder(trace) ==
    \A i \in 1..Len(trace) :
        /\ trace[i].stage = i
        /\ i > 1 => ~trace[i - 1].ok

AllFailed(trace) == \A i \in 1..Len(trace) : ~trace[i].ok

\* C1: between two cleanups, for every role, the load runs at most once and
\* every get returns the same thing, whatever the first load's outcome.
C1_LazyCreationIdempotent ==
    \A r \in Roles : loads[r] <= 1 /\ Cardinality(returned[r]) <= 1

\* C2: every caller whose get(role) was pending while another caller's load
\* of the role ran executes no load of its own and receives the handle that
\* load produced: one load, the same handle for all.
C2_ConcurrentGetOneLoad ==
    \A r \in Roles : \A f \in fan[r] :
        /\ ~f.ran
        /\ f.got.kind = "handle"
        /\ f.got = f.expected
        /\ loads[r] = 1

\* C3: when the load that ran while a caller was pending failed, that caller
\* observes the same failure and starts no load attempt of its own.
C3_FailureFansOut ==
    \A r \in Roles : \A f \in fan[r] :
        f.expected.kind \in {"raise", "None"} =>
            /\ ~f.ran
            /\ f.got = f.expected

\* C4: after a cleanup() every handle is absent until a get of its role; the
\* first get of a role after the cleanup runs the load, loads start at stage
\* 1, and no get after the cleanup returns an object made before it.
C4_CleanupThenReload ==
    /\ cleanups > 0 =>
         \A r \in Roles :
            /\ returned[r] = {} => CacheOf(r) = None
            /\ returned[r] # {} => loads[r] >= 1
            /\ \A o \in returned[r] : o.kind = "handle" => o.id >= idAtCleanup[r]
    /\ last.ran => last.trace[1].stage = 1

C4_Witness ==
    /\ cleanups > 0
    /\ idAtCleanup["swapper"] > 1
    /\ returned["swapper"] # {}
    /\ last.role = "swapper"
    /\ last.ran
    /\ last.kind = "handle"
    /\ last.h.id >= idAtCleanup["swapper"]
    /\ face_swapper = last.h

\* C5 as stated: for every role the stages are attempted in order, and when
\* stage 1 fails stage 2 (CPU-only) is attempted; if stage 2 succeeds its
\* handle is returned and stage 3 is not attempted.
C5_FallbackOrderingEveryRole ==
    last.ran =>
        /\ InCascadeOrder(last.trace)
        /\ ~last.trace[1].ok =>
              /\ Len(last.trace) >= 2
              /\ last.trace[2].stage = 2
              /\ last.trace[2].providers = <<CPU>>
              /\ last.trace[2].ok =>
                    /\ Len(last.trace) = 2
                    /\ last.kind = "handle"
                    /\ last.h.stage = 2

\* C5 amended: the above for the detector and the swapper; the restorer's
\* load has a single stage, and when it fails the get returns None without
\* a CPU-only or any further attempt.
C5_FallbackOrdering ==
    last.ran =>
        /\ InCascadeOrder(last.trace)
        /\ (last.role \in {"detector", "swapper"} /\ ~last.trace[1].ok) =>
              /\ Len(last.trace) >= 2
              /\ last.trace[2].stage = 2
              /\ last.trace[2].providers = <<CPU>>
              /\ last.trace[2].ok =>
                    /\ Len(last.trace) = 2
                    /\ last.kind = "handle"
                    /\ last.h.stage = 2
        /\ last.role = "restorer" =>
              /\ Len(last.trace) = 1
              /\ ~last.trace[1].ok => last.kind = "None"

C5_Witness ==
    /\ last.role = "swapper"
    /\ last.ran
    /\ Len(last.trace) = 2
    /\ ~last.trace[1].ok
    /\ last.trace[2].ok
    /\ last.kind = "handle"
    /\ last.h.stage = 2

\* C6: get_gfpgan_restorer never raises: a failed GFPGANer load gives None,
\* and a failed background upsampler alone still gives a handle (without
\* the upsampler).
C6_RestorerNeverRaises ==
    last.role = "restorer" =>
        /\ last.kind # "raise"
        /\ (last.ran /\ ~last.trace[1].ok) => last.kind = "None"
        /\ (last.ran /\ last.trace[1].ok) =>
              /\ last.kind = "handle"
              /\ last.trace[1].aux = "raise" => ~last.h.bg

C6_Witness ==
    /\ last.role = "restorer"
    /\ last.ran
    /\ AllFailed(last.trace)
    /\ last.kind = "None"
    /\ gfpgan_restorer = None

\* C7: a get of the detector or the swapper never returns None, and it
\* raises when every attempted stage of its load failed.
C7_ExhaustionRaises ==
    last.role \in {"detector", "swapper"} =>
        /\ last.kind # "None"
        /\ (last.ran /\ AllFailed(last.trace)) => last.kind = "raise"

C7_Witness ==
    /\ last.role = "swapper"
    /\ last.ran
    /\ Len(last.trace) = 3
    /\ AllFailed(last.trace)
    /\ last.kind = "raise"

\* C8: the device is cuda whenever cuda is available, else mps whenever mps
\* is present and available, else cpu; always one of the three.
C8_DevicePreference ==
    _initialized =>
        /\ device \in {"cuda", "mps", "cpu"}
        /\ resolvedFrom.cuda => device = "cuda"
        /\ (~resolvedFrom.cuda /\ resolvedFrom.hasMps /\ resolvedFrom.mpsAvail)
              => device = "mps"
        /\ (~resolvedFrom.cuda /\ ~(resolvedFrom.hasMps /\ resolvedFrom.mpsAvail))
              => device = "cpu"

C8_Witness ==
    /\ _initialized
    /\ resolvedFrom.cuda
    /\ resolvedFrom.hasMps
    /\ resolvedFrom.mpsAvail
    /\ device = "cuda"

\* The provider an accelerated backend is specific to.
BackendProvider(dev) == IF dev = "cuda" THEN CUDA ELSE COREML

\* C9: stage 1 of a detector or swapper load passes, on cuda and on mps, the
\* backend's own provider first and the CPU provider last, and on cpu the
\* CPU provider only; the detector's context id is 0 on cuda, else -1.
C9_ProvidersPerBackend ==
    (last.ran /\ last.role \in {"detector", "swapper"}) =>
        LET p == last.trace[1].providers
        IN  /\ device \in {"cuda", "mps"} =>
                 /\ Len(p) = 2
                 /\ p[1] = BackendProvider(device)
                 /\ p[2] = CPU
            /\ device = "cpu" => p = <<CPU>>
            /\ last.role = "detector" =>
                 last.trace[1].ctx_id = (IF device = "cuda" THEN 0 ELSE -1)

\* C10: once constructed there is one ModelManager object, _get_best_device
\* has run once, and the device is the one resolved at first construction,
\* whatever constructions, gets and cleanups followed.
C10_DeviceResolvedOnce ==
    /\ allocs <= 1
    /\ _instance # 0 =>
         /\ _initialized
         /\ allocs = 1
         /\ resolves = 1
         /\ device = firstDevice
         /\ use_mps = (device = "mps")

C10_Witness ==
    /\ reconstructed
    /\ cleanups > 0
    /\ last.kind = "handle"
    /\ resolves = 1
    /\ device = firstDevice

\* A swap_face call that got past its initialize and ran its try block.
SwapBodyRan == swapLast.op = "swap_face" /\ swapLast.at = "body"

\* C11: when the detector finds no face in the target and at least one in
\* the source, swap_face fails with the no-face error naming the target; when
\* it finds none in the source and at least one in the target, with the one
\* naming the source; in both cases the swap operator is not invoked and each
\* image has been detected exactly once.
C11_NoFaceContract ==
    SwapBodyRan =>
        LET in  == swapLast.in
            run == swapLast.run
        IN  /\ (Len(in.target_faces) = 0 /\ in.nSource >= 1) =>
                  /\ run.kind = "no_face" /\ run.side = "target"
                  /\ run.calls = <<>>
                  /\ run.detections = <<"source", "target">>
            /\ (in.nSource = 0 /\ Len(in.target_faces) >= 1) =>
                  /\ run.kind = "no_face" /\ run.side = "source"
                  /\ run.calls = <<>>
                  /\ run.detections = <<"source", "target">>

C11_Witness ==
    /\ SwapBodyRan
    /\ Len(swapLast.in.target_faces) = 0 /\ swapLast.in.nSource = 2
    /\ swapLast.run.kind = "no_face" /\ swapLast.run.side = "target"

\* C12: a swap_face that returns an image for a target with K >= 1 detected
\* faces has invoked the swap operator exactly K times, on the faces in
\* detector order, the first time on a copy of the target and each later time
\* on the output of the invocation before, always with the first source face.
C12_MultiFaceCompositing ==
    (SwapBodyRan /\ swapLast.run.kind = "image" /\ Len(swapLast.in.target_faces) >= 1) =>
        LET tf    == swapLast.in.target_faces
            calls == swapLast.run.calls
            src   == swapLast.source_faces[1]
        IN  /\ Len(calls) = Len(tf)
            /\ \A i \in 1 .. Len(calls) :
                  /\ calls[i].face = i
                  /\ calls[i].source = src
                  /\ calls[i].input = IF i = 1 THEN swapLast.target_img
                                      ELSE SwapOperator(calls[i - 1].input, tf[i - 1], src)
            /\ swapLast.run.swapped =
                  SwapOperator(calls[Len(calls)].input, tf[Len(tf)], src)

C12_Witness ==
    /\ SwapBodyRan /\ swapLast.run.kind = "image"
    /\ Len(swapLast.in.target_faces) = 2 /\ swapLast.in.nSource = 2
    /\ Len(swapLast.run.calls) = 2
    /\ swapLast.run.calls[2].input # swapLast.target_img
    /\ swapLast.run.swapped # swapLast.run.calls[2].input

\* C13: a swap_face that returns an image returns, with blend_strength 0.0,
\* the target pixel for pixel, and with blend_strength 1.0 the composited
\* image (swapped, colour-corrected when asked) with no mixing step applied.
C13_BlendBoundary ==
    (SwapBodyRan /\ swapLast.run.kind = "image") =>
        LET in  == swapLast.in
            run == swapLast.run
        IN  /\ in.b = 0 => run.img = swapLast.target_img
            /\ in.b = BlendScale => (run.img = run.cc.img /\ ~run.mixed)
            /\ ~in.color_correction => run.cc.img = run.swapped

C13_Witness ==
    /\ SwapBodyRan /\ swapLast.run.kind = "image"
    /\ swapLast.in.b = 0
    /\ swapLast.run.cc.img # swapLast.target_img
    /\ swapLast.run.img = swapLast.target_img

\* C14: in _apply_color_correction a face whose clipped box has zero or
\* negative width or height is skipped with the running result unchanged,
\* it causes no exception, and the faces after it are still processed.
C14_DegenerateBoxSkipped ==
    (SwapBodyRan /\ swapLast.run.ccRan) =>
        LET in  == swapLast.in
            tf  == in.target_faces
            cc  == swapLast.run.cc
            deg(i) == Degenerate(ClipBox(tf[i].bbox, swapLast.target_img))
        IN  /\ cc.failed => (in.ccFailAt \in 1 .. Len(tf) /\ ~deg(in.ccFailAt))
            /\ ~cc.failed =>
                  /\ Len(cc.steps) = Len(tf)
                  /\ \A i \in 1 .. Len(tf) :
                        deg(i) => (cc.steps[i].skipped
                                   /\ cc.steps[i].after = cc.steps[i].before)

C14_Witness ==
    /\ SwapBodyRan /\ swapLast.run.ccRan /\ ~swapLast.run.cc.failed
    /\ Len(swapLast.in.target_faces) = 2
    /\ swapLast.in.ccFailAt = 1
    /\ Degenerate(ClipBox(swapLast.in.target_faces[1].bbox, swapLast.target_img))
    /\ swapLast.run.cc.steps[1].skipped
    /\ ~swapLast.run.cc.steps[2].skipped
    /\ swapLast.run.cc.steps[2].after # swapLast.run.cc.steps[2].before

\* C18: when the colour arithmetic raises on a face, swap_face does not
\* raise: the stage yields the swapped image uncorrected, and the call goes
\* on to the blend-strength mix of that image and returns an image.
C18_ColorCorrectionBestEffort ==
    (SwapBodyRan /\ swapLast.run.ccRan /\ swapLast.run.cc.failed) =>
        LET in  == swapLast.in
            run == swapLast.run
        IN  /\ run.kind = "image"
            /\ ~run.cc.raised
            /\ run.cc.img = run.swapped
            /\ run.mixed = (in.b < BlendScale)
            /\ run.img = IF in.b < BlendScale
                         THEN addWeighted(swapLast.target_img, run.swapped, in.b)
                         ELSE run.swapped

C18_Witness ==
    /\ SwapBodyRan /\ swapLast.run.ccRan /\ swapLast.run.cc.failed
    /\ swapLast.in.ccFailAt = 2
    /\ swapLast.in.b = 1
    /\ swapLast.run.kind = "image"
    /\ swapLast.run.img # swapLast.run.swapped
    /\ swapLast.run.img # swapLast.target_img

\* C19: when the swap operator raises on the k-th detected target face,
\* swap_face raises and returns no image, and the operator has been invoked
\* on faces 1..k only.
C19_SwapFailureAborts ==
    (SwapBodyRan /\ swapLast.in.swapFailAt >= 1 /\ swapLast.in.nSource >= 1) =>
        LET k   == swapLast.in.swapFailAt
            run == swapLast.run
        IN  /\ run.kind = "raise"
            /\ run.img = NoImage
            /\ Len(run.calls) = k
            /\ \A i \in 1 .. k : run.calls[i].face = i
            /\ ~run.ccRan /\ ~run.mixed

C19_Witness ==
    /\ SwapBodyRan /\ swapLast.in.swapFailAt = 1
    /\ Len(swapLast.in.target_faces) = 2
    /\ swapLast.run.kind = "raise"
    /\ Len(swapLast.run.calls) = 1

\* C15: FaceRestoration.initialize never raises, also when the restorer's
\* load failed; a restore on an engine without a restorer handle takes the
\* classical path and invokes no restoration operator, raises only when a
\* classical filter raised, and otherwise returns an image of the input's
\* shape.
C15_RestorerUnavailableNonFatal ==
    /\ restoreLast.op = "initialize" =>
          (restoreLast.kind = "none" /\ restore_initialized)
    /\ (restoreLast.op = "restore" /\ restoreLast.gfpgan = None) =>
          LET run == restoreLast.run
          IN  /\ run.path = "classical"
              /\ run.calls = 0
              /\ run.kind = "raise" => restoreLast.in.fail # "none"
              /\ run.kind # "raise" =>
                    /\ run.kind = "image"
                    /\ run.img.w = restoreLast.img.w
                    /\ run.img.h = restoreLast.img.h
                    /\ DOMAIN run.img.px = DOMAIN restoreLast.img.px

C15_Witness ==
    /\ restoreLast.op = "restore"
    /\ restore_initialized /\ gfpgan = None /\ gfpgan_restorer = None
    /\ restoreLast.run.kind = "image"
    /\ restoreLast.run.stages = <<"denoise", "enhance", "sharpen">>
    /\ restoreLast.run.img # restoreLast.img
    /\ restoreLast.run.img.w = restoreLast.img.w

\* C16: on the classical path a restore with strength 0.0 that returns
\* returns its input pixel for pixel, whatever denoise_level, sharpen_amount
\* and enhance_details are.
C16_ClassicalStrengthZero ==
    (/\ restoreLast.op = "restore"
     /\ restoreLast.gfpgan = None
     /\ restoreLast.in.s = 0
     /\ restoreLast.run.kind = "image") =>
        restoreLast.run.img = restoreLast.img

C16_Witness ==
    /\ restoreLast.op = "restore" /\ restoreLast.gfpgan = None
    /\ restoreLast.in.s = 0
    /\ restoreLast.run.kind = "image"
    /\ restoreLast.run.stages = <<"denoise", "enhance", "sharpen">>
    /\ restoreLast.run.filtered # restoreLast.img
    /\ restoreLast.run.img = restoreLast.img

\* C17: a restore in which a stage raised (a classical filter, or the
\* restoration operator on the model path) raises to its caller; on the
\* model path the input comes back unmodified only when the operator
\* returned no image.
C17_RestoreFailuresPropagate ==
    restoreLast.op = "restore" =>
        LET in  == restoreLast.in
            run == restoreLast.run
        IN  /\ (run.path = "model" /\ in.op = "raise") => run.kind = "raise"
            /\ (run.path = "classical" /\ run.stages # <<>>
                  /\ in.fail = run.stages[Len(run.stages)]) => run.kind = "raise"
            /\ (run.path = "model" /\ run.kind = "image" /\ run.img = restoreLast.img) =>
                  in.op = "none"

\* C20: the cached handle of every role is absent or the product of a load
\* stage that completed entirely (detector: constructor and prepare); so
\* after a get_face_analysis that raised the cached detector is absent and
\* no later get returns a detector whose prepare failed.
C20_NoPartialHandleCached ==
    /\ \A r \in Roles : CacheOf(r) = None \/ CacheOf(r).ready
    /\ (last.role = "detector" /\ last.kind = "raise") => face_analysis = None
    /\ last.kind = "handle" => last.h.ready

\* C21 as stated: whenever stage 1 of the detector's load failed, whatever
\* the failure, the retry was made with CPU-only providers, context id -1 and
\* the reduced module set.
C21_Stage2AlwaysReduced ==
    (last.role = "detector" /\ Len(last.trace) >= 2) =>
        /\ last.trace[2].providers = <<CPU>>
        /\ last.trace[2].ctx_id = -1
        /\ last.trace[2].modules = "reduced"

\* C21: whenever stage 1 of the detector's load failed, the retry was made
\* with CPU-only providers and context id -1; it used the reduced module set
\* exactly when stage 1 ended with an AssertionError, and the full module set
\* after any other exception.
C21_Stage2Retry ==
    (last.role = "detector" /\ last.ran) =>
        /\ Len(last.trace) >= 2 <=> ~last.trace[1].ok
        /\ Len(last.trace) >= 2 =>
              /\ last.trace[2].providers = <<CPU>>
              /\ last.trace[2].ctx_id = -1
              /\ last.trace[2].modules =
                    IF last.trace[1].error = "AssertionError" THEN "reduced" ELSE "all"

C21_Witness ==
    /\ last.role = "detector" /\ Len(last.trace) = 2
    /\ device = "cuda"
    /\ last.trace[1].providers = <<CUDA, CPU>> /\ last.trace[1].ctx_id = 0
    /\ last.trace[1].error = "AssertionError"
    /\ last.trace[2].modules = "reduced"
    /\ last.trace[2].ok

\* C22 as stated: for every role, a get whose load ended in failure
\* (an exception, or None for the restorer) either found the model's local
\* file absent or made, as its last attempt, a load from the local file.
C22_LocalStageEveryRole ==
    (last.ran /\ last.kind \in {"raise", "None"}) =>
        \/ last.localFile = "absent"
        \/ last.trace[Len(last.trace)].source = "local"

\* C22: only the swapper has a local-file stage after its two stages: when
\* both failed it tests its local file, loads from it on the CPU when the
\* file is present, and raises only with the file absent or that load
\* failed.  A detector get raises after stage 2 with no local file tested
\* or loaded.  The restorer's one stage takes its model from the local file
\* when present and from the URL otherwise, and ends the load either way.
C22_LocalStage ==
    /\ (last.role = "swapper" /\ last.ran /\ Len(last.trace) >= 2 /\ ~last.trace[2].ok) =>
          /\ last.localFile # "unread"
          /\ last.localFile = "present" <=> Len(last.trace) = 3
          /\ Len(last.trace) = 3 =>
                /\ last.trace[3].source = "local"
                /\ last.trace[3].providers = <<CPU>>
                /\ last.kind = "raise" <=> ~last.trace[3].ok
          /\ last.localFile = "absent" => last.kind = "raise"
    /\ (last.role = "swapper" /\ last.kind = "raise") =>
          (Len(last.trace) >= 2 /\ ~last.trace[1].ok /\ ~last.trace[2].ok)
    /\ (last.role = "detector" /\ last.kind = "raise") =>
          /\ Len(last.trace) = 2
          /\ last.localFile = "unread"
          /\ \A i \in 1 .. 2 : last.trace[i].source = "buffalo_l"
    /\ (last.role = "restorer" /\ last.ran) =>
          /\ Len(last.trace) = 1
          /\ last.trace[1].source = IF last.localFile = "present" THEN "local" ELSE "url"

C22_Witness ==
    /\ last.role = "swapper" /\ last.kind = "raise"
    /\ last.localFile = "present"
    /\ Len(last.trace) = 3
    /\ last.trace[3].source = "local" /\ ~last.trace[3].ok

\* C23 as stated: an initialize that starts loading asks for the detector
\* and then the swapper whatever the detector's get did, and a startup whose
\* swap engine started loading also initializes the restoration engine.
C23_RoleLoadsIndependent ==
    (swapLast.op = "initialize" /\ swapLast.ran) =>
        /\ Len(swapLast.gets) = 2
        /\ swapLast.gets[1].role = "detector" /\ swapLast.gets[2].role = "swapper"
        /\ swapLast.by = "startup_event" => swapLast.next.op = "initialize"

\* C23: handles are asked for in the order detector, swapper, restorer, and
\* the sequence stops at the first get that raises: FaceSwapper.initialize
\* asks for the swapper exactly when the detector's get returned, and the
\* startup handler initializes the restoration engine exactly when
\* FaceSwapper.initialize did not raise; a failed load of the restorer raises
\* nothing and blocks nothing.
C23_LoadsStopAtFirstFailure ==
    /\ (swapLast.op = "initialize" /\ swapLast.ran) =>
          /\ Len(swapLast.gets) \in {1, 2}
          /\ swapLast.gets[1].role = "detector"
          /\ Len(swapLast.gets) = 2 <=> swapLast.gets[1].kind # "raise"
          /\ Len(swapLast.gets) = 2 => swapLast.gets[2].role = "swapper"
          /\ swapLast.kind = "raise" <=> swapLast.gets[Len(swapLast.gets)].kind = "raise"
    /\ (swapLast.op = "initialize" /\ swapLast.by = "startup_event") =>
          IF swapLast.kind = "raise"
          THEN swapLast.next = NoCall
          ELSE /\ swapLast.next.op = "initialize"
               /\ swapLast.next.kind = "none"
    /\ (restoreLast.op = "initialize" /\ restoreLast.ran) =>
          (Len(restoreLast.gets) = 1 /\ restoreLast.gets[1].role = "restorer")

C23_Witness ==
    /\ swapLast.op = "initialize" /\ swapLast.by = "startup_event"
    /\ swapLast.kind = "raise"
    /\ Len(swapLast.gets) = 1 /\ swapLast.gets[1].kind = "raise"
    /\ face_swapper = None /\ gfpgan_restorer = None
    /\ ~restore_initialized /\ swapLast.next = NoCall

\* The path a restore takes with the engine's handle gf.
PathOf(gf) == IF gf = None THEN "classical" ELSE "model"

\* C24: while the restoration engine stays initialized its handle does not
\* change, whatever the manager loads or drops; and a restore call on an
\* initialized engine takes the path of that handle (model path if it holds
\* a handle, degraded path otherwise), calls no get of the manager and
\* leaves the manager's cached restorer as it was.
C24_PathStep ==
    restore_initialized =>
        /\ restore_initialized' => gfpgan' = gfpgan
        /\ (restoreLast = NoCall /\ restoreLast'.op = "restore") =>
              /\ restoreLast'.was_initialized
              /\ restoreLast'.gets = <<>>
              /\ restoreLast'.run.path = PathOf(gfpgan)
              /\ gfpgan_restorer' = gfpgan_restorer
              /\ nextId' = nextId

C24_PathFixedUntilDispose == [][C24_PathStep]_vars

C24_Witness ==
    /\ restoreLast.op = "restore" /\ restoreLast.was_initialized
    /\ restore_initialized /\ gfpgan = None
    /\ gfpgan_restorer # None
    /\ cleanups = 1
    /\ restoreLast.run.path = "classical"
    /\ restoreLast.gets = <<>>

\* C25: on the model path a restore invokes the restoration operator
\* exactly once; when the operator returns an image the call returns that
\* image, when it returns none the call returns its input; no classical
\* filter runs and no strength mix is applied.
C25_ModelPath ==
    (restoreLast.op = "restore" /\ restoreLast.gfpgan # None) =>
        LET in  == restoreLast.in
            run == restoreLast.run
            out == _restore_with_gfpgan(restoreLast.img, in.s, in.op)
        IN  /\ run.path = "model"
            /\ run.calls = 1
            /\ run.stages = <<>>
            /\ ~run.mixed
            /\ in.op = "ok" => (run.kind = "image" /\ run.img = out.img)
            /\ in.op = "none" => (run.kind = "image" /\ run.img = restoreLast.img)

C25_Witness ==
    /\ restoreLast.op = "restore" /\ restoreLast.gfpgan # None
    /\ restoreLast.in.op = "ok" /\ restoreLast.in.s = 1
    /\ restoreLast.run.calls = 1
    /\ restoreLast.run.img # restoreLast.img
    /\ restoreLast.run.img # addWeighted(restoreLast.img, restoreLast.run.filtered, 1)

\* C26: on the degraded path a restore that returns has run denoise, then
\* detail enhancement iff enhance_details, then sharpening iff
\* sharpen_amount > 0, each on the output of the stage before, and has mixed
\* the outcome with the original input iff strength < 1.0.
C26_ClassicalOrder ==
    (/\ restoreLast.op = "restore" /\ restoreLast.gfpgan = None
     /\ restoreLast.run.kind = "image") =>
        LET in  == restoreLast.in
            run == restoreLast.run
            s1  == IF in.d > 0 THEN _denoise(restoreLast.img, in.d) ELSE restoreLast.img
            s2  == IF in.e THEN _enhance_details(s1) ELSE s1
            s3  == IF in.a > 0 THEN _sharpen(s2, in.a) ELSE s2
            later == SelectSeq(run.stages, LAMBDA n : n \in {"enhance", "sharpen"})
        IN  /\ run.filtered = s3
            /\ later = (IF in.e THEN <<"enhance">> ELSE <<>>)
                         \o (IF in.a > 0 THEN <<"sharpen">> ELSE <<>>)
            /\ (in.d > 0) <=> (Len(run.stages) >= 1
                                 /\ run.stages[1] \in {"denoise", "denoise_noop"})
            /\ run.mixed <=> in.s < BlendScale
            /\ run.img = IF in.s < BlendScale
                         THEN addWeighted(restoreLast.img, s3, in.s)
                         ELSE s3

C26_Witness ==
    /\ restoreLast.op = "restore" /\ restoreLast.gfpgan = None
    /\ restoreLast.run.kind = "image"
    /\ restoreLast.run.stages = <<"denoise", "enhance", "sharpen">>
    /\ restoreLast.in.s = 1
    /\ restoreLast.run.mixed
    /\ restoreLast.run.filtered #
          _enhance_details(_sharpen(_denoise(restoreLast.img, restoreLast.in.d),
                                    restoreLast.in.a))

\* C27 as stated: on the degraded path the denoise filter is applied to the
\* image for every denoise_level > 0.
C27_DenoiseAppliedWhenPositive ==
    (/\ restoreLast.op = "restore" /\ restoreLast.gfpgan = None
     /\ restoreLast.run.kind = "image" /\ restoreLast.in.d > 0) =>
        restoreLast.run.stages[1] = "denoise"

\* C27: on the degraded path _denoise is called exactly when
\* denoise_level > 0, and it applies its filter exactly when
\* int(denoise_level * 10) >= 1; for a positive level below 0.1 it returns
\* the image unchanged.
C27_DenoiseThreshold ==
    (/\ restoreLast.op = "restore" /\ restoreLast.gfpgan = None
     /\ restoreLast.run.kind = "image") =>
        LET in  == restoreLast.in
            run == restoreLast.run
        IN  /\ in.d <= 0 => (run.stages = <<>> \/ run.stages[1] \in {"enhance", "sharpen"})
            /\ (in.d > 0 /\ DenoiseH(in.d) >= 1) => run.stages[1] = "denoise"
            /\ (in.d > 0 /\ DenoiseH(in.d) < 1) => run.stages[1] = "denoise_noop"
            /\ (~in.e /\ in.a = 0) =>
                  (run.filtered = restoreLast.img <=> DenoiseH(in.d) < 1)

C27_Witness ==
    /\ restoreLast.op = "restore" /\ restoreLast.gfpgan = None
    /\ restoreLast.run.kind = "image"
    /\ restoreLast.in.d = 1 /\ ~restoreLast.in.e /\ restoreLast.in.a = 0
    /\ restoreLast.in.fail = "denoise"
    /\ restoreLast.run.stages = <<"denoise_noop">>
    /\ restoreLast.run.filtered = restoreLast.img

\* C28: over any sequence of initialize, swap_face and dispose calls with
\* loads that may fail, is_initialized is true only while app and swapper
\* both hold a handle; an initialize that raised leaves is_initialized false;
\* a swap_face on an uninitialized engine runs initialize again; and
\* swap_face runs detection and the swap operator only with both handles
\* present.
C28_SwapperInitializedInvariant ==
    /\ swap_initialized => (app # None /\ swapper # None)
    /\ (swapLast.op \in {"initialize", "swap_face"} /\ swapLast.kind = "raise"
          /\ swapLast.gets # <<>> /\ swapLast.gets[Len(swapLast.gets)].kind = "raise") =>
          ~swap_initialized
    /\ swapLast.op = "swap_face" =>
          /\ ~swapLast.was_initialized =>
                (swapLast.gets # <<>> /\ swapLast.gets[1].role = "detector")
          /\ swapLast.at = "body" =>
                /\ swapLast.app # None /\ swapLast.swapper # None
                /\ swap_initialized
          /\ swapLast.at = "initialize" => ~swap_initialized

C28_Witness ==
    /\ swapLast.op = "swap_face" /\ swapLast.at = "body"
    /\ ~swapLast.was_initialized
    /\ Len(swapLast.gets) = 2
    /\ ~swapLast.gets[1].ran /\ swapLast.gets[2].ran
    /\ swapLast.run.kind = "image"
    /\ swap_initialized /\ app # None /\ swapper # None

\* C30: when the colour arithmetic raises on the j-th face, the stage
\* returns the whole swapped image uncorrected: faces 1..j-1 have been
\* processed and their corrections are not in the returned image, no face
\* after the j-th is processed; and the swapped image passed to the stage
\* is the same after the stage, whether or not it failed.
C30_ColorCorrectionAllOrNothing ==
    (SwapBodyRan /\ swapLast.run.ccRan) =>
        LET cc == swapLast.run.cc
            j  == swapLast.in.ccFailAt
        IN  /\ cc.buffer = swapLast.run.swapped
            /\ cc.failed =>
                  /\ cc.img = swapLast.run.swapped
                  /\ Len(cc.steps) = j - 1
                  /\ \A i \in 1 .. Len(cc.steps) : cc.steps[i].face = i

C30_Witness ==
    /\ SwapBodyRan /\ swapLast.run.ccRan /\ swapLast.run.cc.failed
    /\ swapLast.in.ccFailAt = 2
    /\ Len(swapLast.run.cc.steps) = 1
    /\ ~swapLast.run.cc.steps[1].skipped
    /\ swapLast.run.cc.steps[1].after # swapLast.run.swapped
    /\ swapLast.run.cc.img = swapLast.run.swapped

\* C29: a cleanup of the manager changes nothing of an engine: an engine
\* that was initialized stays initialized with the handles it held; its
\* next swap_face / restore calls no get of the manager, uses the handles
\* held before the cleanup, and leaves the manager's cached handles as they
\* were; a cached handle that is absent becomes present only in a step
\* where a get is called, by an engine that is not initialized or by
\* another caller.
C29_CleanupStep ==
    /\ cleanups' # cleanups =>
          /\ face_analysis' = None /\ face_swapper' = None /\ gfpgan_restorer' = None
          /\ swap_initialized' = swap_initialized /\ app' = app /\ swapper' = swapper
          /\ restore_initialized' = restore_initialized /\ gfpgan' = gfpgan
    /\ (swap_initialized /\ swapLast = NoCall /\ swapLast'.op = "swap_face") =>
          /\ swapLast'.gets = <<>>
          /\ swapLast'.at = "body"
          /\ swapLast'.app = app /\ swapLast'.swapper = swapper
          /\ swap_initialized' /\ app' = app /\ swapper' = swapper
          /\ face_analysis' = face_analysis /\ face_swapper' = face_swapper
    /\ (restore_initialized /\ restoreLast = NoCall /\ restoreLast'.op = "restore") =>
          /\ restoreLast'.gets = <<>>
          /\ restoreLast'.gfpgan = gfpgan
          /\ restore_initialized' /\ gfpgan' = gfpgan
          /\ gfpgan_restorer' = gfpgan_restorer
    /\ ((face_analysis = None /\ face_analysis' # None)
           \/ (face_swapper = None /\ face_swapper' # None)) =>
          \/ ~swap_initialized /\ swapLast = NoCall /\ swapLast'.op \in {"initialize", "swap_face"}
                /\ swapLast'.gets # <<>>
          \/ UNCHANGED <<swapVars, restoreVars>>
    /\ (gfpgan_restorer = None /\ gfpgan_restorer' # None) =>
          \/ ~restore_initialized /\ restoreLast = NoCall
                /\ restoreLast'.op \in {"initialize", "restore"} /\ restoreLast'.gets # <<>>
          \/ UNCHANGED <<swapVars, restoreVars>>

C29_EnginesKeepHandlesAfterCleanup == [][C29_CleanupStep]_vars

C29_Witness ==
    /\ cleanups >= 1
    /\ face_analysis = None /\ face_swapper = None /\ gfpgan_restorer = None
    /\ swap_initialized /\ app # None /\ swapper # None
    /\ restore_initialized /\ gfpgan # None
    /\ swapLast.op = "swap_face" /\ swapLast.was_initialized
    /\ swapLast.gets = <<>> /\ swapLast.run.kind = "image"
    /\ swapLast.app = app /\ swapLast.swapper = swapper

====
